---- MODULE Spec2Model ----
(***************************************************************************)
(* Model of bluefog/common/topology_util.py: the topology builders, the    *)
(* weight extractors and the dynamic send/recv schedulers.                 *)
(*                                                                         *)
(* Weights are the IEEE doubles the code computes, with the rounding of    *)
(* every division, addition and subtraction (see the arithmetic section).  *)
(* A topology is the weight matrix nx.from_numpy_array was given: node set *)
(* 0..n-1 and an edge i -> j exactly where w[i][j] is nonzero.             *)
(*                                                                         *)
(* Outcomes: "ok", or the failure raised.  An AssertionError on an         *)
(* argument check (size > 0, connect_style, shape, base, divisibility) is  *)
(* "InvalidArgument"; the AssertionError of `nodes_per_machine > 2` is     *)
(* "Unsupported"; every other exception keeps its Python name.             *)
(***************************************************************************)
EXTENDS Integers, Sequences, FiniteSets, TLC

VARIABLES
    call,   \* the last builder call: [fn |-> name, ...arguments]
    status, \* its outcome
    topo,   \* the topology it returned (NoTopology when none)
    view,   \* the last WeightView returned by GetSendWeights / GetRecvWeights
    sched,  \* the configuration the schedule generators were created with
    gens    \* per rank: the state of that rank's schedule generator

vars == <<call, status, topo, view, sched, gens>>

----------------------------------------------------------------------------
(* Bounds of the exploration *)

MaxSize == 6        \* builders are called with size in -1..MaxSize
MaxBase == 3        \* PowerGraph / SymmetricPowerGraph base in 0..MaxBase
MaxAdjNodes == 3    \* hand-made topologies have 1..MaxAdjNodes nodes
MaxWorld == 12      \* hierarchical world_size in 1..MaxWorld
MaxLocal == 6       \* hierarchical local_size in 1..MaxLocal
MaxRound == 10      \* every generator is advanced at most MaxRound times
MinWideSize == 486  \* the wide power graphs have MinWideSize..MaxWideSize nodes:
MaxWideSize == 497  \* enough for an offset of 243 = 3^5 to either side of rank 0
RoundingSize == 17  \* the least size at which a row of a power graph holds six weights

----------------------------------------------------------------------------
(* IEEE double arithmetic *)

\* A weight is the double the code holds, written <<s, e, hi, lo>>: its value is
\* s * (hi * 2^26 + lo) * 2^(e - 52), with sign s in {1, -1}, unbiased exponent
\* e and the 53-bit significand split into its high 27 bits hi (2^26 <= hi <
\* 2^27) and its low 26 bits lo.  0.0 is <<1, 0, 0, 0>>.  The values met here
\* are far from the subnormal and overflow ranges, and a zero result is +0.0.

Abs(x) == IF x < 0 THEN -x ELSE x

RECURSIVE Pow2(_)
Pow2(k) == IF k = 0 THEN 1 ELSE 2 * Pow2(k - 1)

HiUnit == Pow2(26)      \* the leading significand bit, in hi
ExtUnit == Pow2(29)     \* the low half carrying three extra bits below the last

Zero == <<1, 0, 0, 0>>
IsZero(a) == a[3] = 0

\* l0 with its last bit set when something nonzero was dropped below it
Sticky(l0, dropped) == IF dropped /\ l0 % 2 = 0 THEN l0 + 1 ELSE l0

\* the significand h * 2^29 + l (three extra bits at the end) moved d >= 0 bits
\* down; what falls off the end is remembered in the last bit
ShiftRightSticky(h, l, d) ==
    IF d = 0 THEN <<h, l>>
    ELSE IF d <= 29
    THEN <<h \div Pow2(d),
           Sticky((h % Pow2(d)) * Pow2(29 - d) + (l \div Pow2(d)), l % Pow2(d) # 0)>>
    ELSE IF d <= 57
    THEN <<0, Sticky(h \div Pow2(d - 29), h % Pow2(d - 29) # 0 \/ l # 0)>>
    ELSE <<0, IF h # 0 \/ l # 0 THEN 1 ELSE 0>>

\* the significand hi * 2^26 + lo with lo <= 2^26 after an increment, its
\* carries taken
Carried(s, e, hi, lo) ==
    IF lo < HiUnit THEN <<s, e, hi, lo>>
    ELSE IF hi + 1 < 2 * HiUnit THEN <<s, e, hi + 1, 0>>
    ELSE <<s, e + 1, HiUnit, 0>>

\* round to nearest, ties to even: the significand h * 2^29 + l with
\* 2^26 <= h < 2^27 loses its three extra bits
RoundNearestEven(s, e, h, l) ==
    IF l % 8 > 4 \/ (l % 8 = 4 /\ (l \div 8) % 2 = 1)
    THEN Carried(s, e, h, (l \div 8) + 1)
    ELSE <<s, e, h, l \div 8>>

\* a nonzero extended significand below 2^56 is moved up until its leading bit
\* is in place, then rounded
RECURSIVE NormalizeLeft(_, _, _, _)
NormalizeLeft(s, e, h, l) ==
    IF h >= HiUnit THEN RoundNearestEven(s, e, h, l)
    ELSE NormalizeLeft(s, e - 1, 2 * h + ((2 * l) \div ExtUnit), (2 * l) % ExtUnit)

\* the extended significand pair x one bit too long: moved down, then rounded
RoundShifted(s, e, x) == RoundNearestEven(s, e, x[1], x[2])

\* the extended significand h * 2^29 + l, 0 <= l < 2^29, made a double
Settled(s, e, h, l) ==
    IF h = 0 /\ l = 0 THEN Zero
    ELSE IF h >= 2 * HiUnit THEN RoundShifted(s, e + 1, ShiftRightSticky(h, l, 1))
    ELSE NormalizeLeft(s, e, h, l)

\* the same when l has left 0 .. 2^29 - 1 by a carry or a borrow
Settle(s, e, h, l) == Settled(s, e, h + (l \div ExtUnit), l % ExtUnit)

\* |a| < |b|
MagLess(a, b) ==
    IF IsZero(b) THEN FALSE
    ELSE IF IsZero(a) THEN TRUE
    ELSE IF a[2] # b[2] THEN a[2] < b[2]
    ELSE IF a[3] # b[3] THEN a[3] < b[3]
    ELSE a[4] < b[4]

\* a + b for |a| >= |b| > 0: y is the significand of b aligned to the exponent
\* of a, added when the signs agree (t = 1) and subtracted when not (t = -1)
Aligned(a, y, t) == Settle(a[1], a[2], a[3] + t * y[1], 8 * a[4] + t * y[2])

\* a + b for |a| >= |b|
Ordered(a, b) ==
    IF IsZero(b) THEN a
    ELSE Aligned(a, ShiftRightSticky(b[3], 8 * b[4], a[2] - b[2]), a[1] * b[1])

\* a + b
FAdd(a, b) == IF MagLess(a, b) THEN Ordered(b, a) ELSE Ordered(a, b)

FNeg(a) == IF IsZero(a) THEN Zero ELSE <<-a[1], a[2], a[3], a[4]>>

\* a - b
FSub(a, b) == FAdd(a, FNeg(b))

\* a >= 0.0
FNonNeg(a) == a[1] = 1

\* p and q doubled until q <= p < 2 * q; e such that the quotient of the
\* arguments is (p / q) * 2^e
RECURSIVE LeadingBit(_, _, _)
LeadingBit(p, q, e) ==
    IF p >= 2 * q THEN LeadingBit(p, 2 * q, e + 1)
    ELSE IF p < q THEN LeadingBit(2 * p, q, e - 1)
    ELSE <<p, q, e>>

\* long division: k more steps of 13 quotient bits of r / d, r < d < 2^17;
\* gives <<quotient bits, remainder>>
RECURSIVE LongDiv(_, _, _, _)
LongDiv(r, d, k, acc) ==
    IF k = 0 THEN <<acc, r>>
    ELSE LongDiv((r * Pow2(13)) % d, d, k - 1, acc * Pow2(13) + ((r * Pow2(13)) \div d))

\* the three extra bits standing for the remainder r of a division by d
RestBits(r, d) ==
    IF r = 0 THEN 0 ELSE IF 2 * r < d THEN 1 ELSE IF 2 * r = d THEN 4 ELSE 5

QuotLow(n, H, L) == RoundNearestEven(1, n[3], HiUnit + H[1], 8 * L[1] + RestBits(L[2], n[2]))
QuotHigh(n, H) == QuotLow(n, H, LongDiv(H[2], n[2], 2, 0))
QuotLead(n) == QuotHigh(n, LongDiv(n[1] - n[2], n[2], 2, 0))

\* p / q for integers 0 <= p, 1 <= q, both below 2^16, as Python's true
\* division gives it: the quotient correctly rounded, by long division of the
\* 52 bits after the leading one
Quot(p, q) == IF p = 0 THEN Zero ELSE QuotLead(LeadingBit(p, q, 0))

One == <<1, 0, HiUnit, 0>>

\* the integer a double below 2^26 holds (a count of ones, a sum of 0.0 / 1.0)
IntOf(a) == IF IsZero(a) THEN 0 ELSE a[1] * (a[3] \div Pow2(26 - a[2]))

\* a / b for doubles holding small integers, b # 0
FDiv(a, b) == Quot(IntOf(a), IntOf(b))

\* res = acc; for (; i < top; i += step) res += a[i]
RECURSIVE SumStep(_, _, _, _, _)
SumStep(a, acc, i, top, step) ==
    IF i >= top THEN acc ELSE SumStep(a, FAdd(acc, a[i]), i + step, top, step)

\* ((r[0] + r[1]) + (r[2] + r[3])) + ((r[4] + r[5]) + (r[6] + r[7])) for n = 8
RECURSIVE PairTree(_, _, _)
PairTree(r, lo, n) ==
    IF n = 1 THEN r[lo]
    ELSE FAdd(PairTree(r, lo, n \div 2), PairTree(r, lo + (n \div 2), n \div 2))

\* numpy's pairwise summation of a[lo], ..., a[lo + n - 1]: a plain loop below
\* 8 elements; up to 128, 8 interleaved partial sums r[j] = a[lo + j] +
\* a[lo + 8 + j] + ... over the whole blocks of 8, combined in pairs, then the
\* remaining elements; above 128, two halves
RECURSIVE PairwiseSum(_, _, _)
PairwiseSum(a, lo, n) ==
    IF n < 8 THEN SumStep(a, Zero, lo, lo + n, 1)
    ELSE IF n <= 128
    THEN SumStep(a,
                 PairTree([j \in 0 .. 7 |->
                              SumStep(a, a[lo + j], lo + j + 8,
                                      lo + n - (n % 8) + j, 8)], 0, 8),
                 lo + n - (n % 8), lo + n, 1)
    ELSE FAdd(PairwiseSum(a, lo, (n \div 2) - ((n \div 2) % 8)),
              PairwiseSum(a, lo + (n \div 2) - ((n \div 2) % 8),
                          n - ((n \div 2) - ((n \div 2) % 8))))

\* a.sum() for a vector a of doubles indexed 0 .. n-1
SumFloats(a, n) == PairwiseSum(a, 0, n)

\* sum(f[k] for k in S), the keys taken in increasing order starting from acc
RECURSIVE SumAscending(_, _, _)
SumAscending(f, S, acc) ==
    IF S = {} THEN acc
    ELSE LET x == CHOOSE y \in S : \A z \in S : y <= z
         IN  SumAscending(f, S \ {x}, FAdd(acc, f[x]))

----------------------------------------------------------------------------
(* Topologies *)

NoTopology == [n |-> -1, w |-> <<>>]

\* nx.from_numpy_array(A, create_using=nx.DiGraph) for an n x n array A
from_numpy_array(A, n) == [n |-> n, w |-> A]

Nodes(G) == 0 .. (G.n - 1)
HasEdge(G, i, j) == G.w[i][j] # Zero
successors(G, i) == {j \in Nodes(G) : HasEdge(G, i, j)}
predecessors(G, j) == {i \in Nodes(G) : HasEdge(G, i, j)}
out_degree(G, i) == Cardinality(successors(G, i))
number_of_nodes(G) == G.n

\* roll shifting towards lower indices
rollLeft(x, i, n) == [k \in 0 .. (n - 1) |-> x[(k + i) % n]]

\* np.roll(x, i) for a vector x of length n: result[k] = x[(k - i) mod n]
roll(x, i, n) == [k \in 0 .. (n - 1) |-> x[(k - i) % n]]

\* x /= x.sum()
Normalize(x, n) == LET s == SumFloats(x, n) IN [k \in 0 .. (n - 1) |-> FDiv(x[k], s)]

\* Circulant with every row left as x
CirculantUnrolled(x, n) == [i \in 0 .. (n - 1) |-> x]

\* topo[i] = np.roll(x, i) for every i
Circulant(x, n) == [i \in 0 .. (n - 1) |-> roll(x, i, n)]

Ok(G) == [status |-> "ok", topo |-> G]
Raise(e) == [status |-> e, topo |-> NoTopology]

----------------------------------------------------------------------------
(* Topology builders *)

RECURSIVE BitAnd(_, _)
BitAnd(a, b) ==
    IF a = 0 \/ b = 0 THEN 0
    ELSE (a % 2) * (b % 2) + 2 * BitAnd(a \div 2, b \div 2)

\* AndWithPredecessor testing the lowest bit alone: i & 1
AndWithLowBit(i) == BitAnd(i, 1)

\* i & (i - 1), for i >= 0 (0 & -1 is 0)
AndWithPredecessor(i) == IF i = 0 THEN 0 ELSE BitAnd(i, i - 1)

PowerTwoRingGraph(size) ==
    IF ~(size > 0) THEN Raise("InvalidArgument")
    ELSE LET x == [i \in 0 .. (size - 1) |->
                      IF AndWithPredecessor(i) = 0 THEN One ELSE Zero]
         IN  Ok(from_numpy_array(Circulant(Normalize(x, size), size), size))

RECURSIVE Power(_, _)
Power(b, k) == IF k = 0 THEN 1 ELSE b * Power(b, k - 1)

\* the largest k with base^k <= x, for x >= 1, base >= 2
RECURSIVE FloorLog(_, _)
FloorLog(x, base) == IF x < base THEN 0 ELSE 1 + FloorLog(x \div base, base)

\* The exact powers x = base^k, x <= 5000, at which math.log(x, base), the
\* quotient of two rounded logarithms, comes out just below k (243 = 3^5 gives
\* 4.999999999999999).  At every other x <= 5000 the rounding of math.log
\* does not change whether base ** int(math.log(x, base)) equals x.
LogFallsShort == {<<243, 3>>, <<1000, 10>>, <<4913, 17>>}

\* int(math.log(x, base)) for 1 <= x <= 5000, base >= 2
IntLog(x, base) ==
    IF <<x, base>> \in LogFallsShort THEN FloorLog(x, base) - 1 ELSE FloorLog(x, base)

\* base is [int |-> whether it is a Python int, v |-> its value (floored)]
IntBase(v) == [int |-> TRUE, v |-> v]
FloatBase(v) == [int |-> FALSE, v |-> v]

\* isPowerOf accepting every multiple of base
isPowerOfMultiple(x, base) ==
    IF ~base.int THEN [status |-> "InvalidArgument", value |-> FALSE]
    ELSE IF ~(base.v > 1) THEN [status |-> "InvalidArgument", value |-> FALSE]
    ELSE IF ~(x > 0) THEN [status |-> "InvalidArgument", value |-> FALSE]
    ELSE [status |-> "ok", value |-> (x % base.v = 0)]

\* the value returned, or the failure of one of the three asserts
isPowerOf(x, base) ==
    IF ~base.int THEN [status |-> "InvalidArgument", value |-> FALSE]
    ELSE IF ~(base.v > 1) THEN [status |-> "InvalidArgument", value |-> FALSE]
    ELSE IF ~(x > 0) THEN [status |-> "InvalidArgument", value |-> FALSE]
    ELSE [status |-> "ok", value |-> (Power(base.v, IntLog(x, base.v)) = x)]

\* the shared tail of PowerGraph and SymmetricPowerGraph: x holds 1.0 / 0.0 marks
PowerTail(x, size) ==
    IF size < 0 THEN Raise("ValueError")      \* np.empty((size, size))
    ELSE IF size = 0 THEN Ok(from_numpy_array(<<>>, 0))
    ELSE Ok(from_numpy_array(Circulant(Normalize(x, size), size), size))

PowerGraph(size, base) ==
    LET tests == [i \in 1 .. (size - 1) |-> isPowerOf(i, base)]
    IN  IF \E i \in 1 .. (size - 1) : tests[i].status # "ok"
        THEN Raise("InvalidArgument")
        ELSE PowerTail([i \in 0 .. (size - 1) |->
                           IF i = 0 THEN One
                           ELSE IF tests[i].value THEN One ELSE Zero], size)

SymmetricPowerGraph(size, base) ==
    LET index(i) == IF i <= size \div 2 THEN i ELSE size - i
        tests == [i \in 1 .. (size - 1) |-> isPowerOf(index(i), base)]
    IN  IF \E i \in 1 .. (size - 1) : tests[i].status # "ok"
        THEN Raise("InvalidArgument")
        ELSE PowerTail([i \in 0 .. (size - 1) |->
                           IF i = 0 THEN One
                           ELSE IF tests[i].value THEN One ELSE Zero], size)

ZeroMatrix(n) == [i \in 0 .. (n - 1) |-> [j \in 0 .. (n - 1) |-> Zero]]
Put(M, i, j, v) == [M EXCEPT ![i][j] = v]

\* int(np.sqrt(size)) for size >= 1
ISqrt(size) == CHOOSE r \in 0 .. size : r * r <= size /\ (r + 1) * (r + 1) > size

\* while size % i != 0: i -= 1
RECURSIVE LargestDivisorFrom(_, _)
LargestDivisorFrom(size, i) ==
    IF size % i # 0 THEN LargestDivisorFrom(size, i - 1) ELSE i

\* shape is <<>> (None) or <<nrow, ncol>>
DefaultShape(size) ==
    LET i == LargestDivisorFrom(size, ISqrt(size)) IN <<i, size \div i>>

\* MeshConnect joining i to i + 1 across the end of a grid row as well
RECURSIVE MeshConnectWrapped(_, _, _, _)
MeshConnectWrapped(M, i, size, ncol) ==
    IF i >= size THEN M
    ELSE LET m0 == Put(M, i, i, One)
             m1 == IF i + 1 < size
                   THEN Put(Put(m0, i, i + 1, One), i + 1, i, One) ELSE m0
             m2 == IF i + ncol < size
                   THEN Put(Put(m1, i, i + ncol, One), i + ncol, i, One) ELSE m1
         IN  MeshConnectWrapped(m2, i + 1, size, ncol)

\* first loop of MeshGrid2DGraph, from node i on: the 0/1 connection marks
RECURSIVE MeshConnect(_, _, _, _)
MeshConnect(M, i, size, ncol) ==
    IF i >= size THEN M
    ELSE LET m0 == Put(M, i, i, One)
             m1 == IF (i + 1) % ncol # 0
                   THEN Put(Put(m0, i, i + 1, One), i + 1, i, One) ELSE m0
             m2 == IF i + ncol < size
                   THEN Put(Put(m1, i, i + ncol, One), i + ncol, i, One) ELSE m1
         IN  MeshConnect(m2, i + 1, size, ncol)

Max(a, b) == IF a >= b THEN a ELSE b

\* MeshEdgeWeight with the weight taken from the sender's own degree alone
MeshEdgeWeightOwnDegree(nbrs, i, j) == Quot(1, Cardinality(nbrs[i]))

\* the Hastings weight given to the edge i -> j
MeshEdgeWeight(nbrs, i, j) ==
    Quot(1, Max(Cardinality(nbrs[i]), Cardinality(nbrs[j])))

\* MeshSelfWeight that forgets the 1.0 still standing on the diagonal
MeshSelfWeightFromOne(row, size) == FSub(One, SumFloats(row, size))

\* the self weight of row i once its edges are weighted (M[i][i] is still 1.0)
MeshSelfWeight(row, size) == FSub(Quot(2, 1), SumFloats(row, size))

\* second loop of MeshGrid2DGraph, from node i on
RECURSIVE MeshWeigh(_, _, _, _)
MeshWeigh(M, nbrs, i, size) ==
    IF i >= size THEN M
    ELSE LET row == [j \in 0 .. (size - 1) |->
                        IF j \in nbrs[i] /\ i # j
                        THEN MeshEdgeWeight(nbrs, i, j) ELSE M[i][j]]
             done == [row EXCEPT ![i] = MeshSelfWeight(row, size)]
         IN  MeshWeigh([M EXCEPT ![i] = done], nbrs, i + 1, size)

MeshGrid2DGraph(size, shape) ==
    IF ~(size > 0) THEN Raise("InvalidArgument")
    ELSE LET sh == IF shape = <<>> THEN DefaultShape(size) ELSE shape
             nrow == sh[1]
             ncol == sh[2]
         IN  IF size # nrow * ncol THEN Raise("InvalidArgument")
             ELSE LET conn == MeshConnect(ZeroMatrix(size), 0, size, ncol)
                      nbrs == [i \in 0 .. (size - 1) |->
                                  {j \in 0 .. (size - 1) : conn[i][j] # Zero}]
                  IN  Ok(from_numpy_array(MeshWeigh(conn, nbrs, 0, size), size))

\* StarLoop writing the diagonal entry after the two center entries
RECURSIVE StarLoopSelfLast(_, _, _, _)
StarLoopSelfLast(M, i, size, center_rank) ==
    IF i >= size THEN M
    ELSE LET m1 == Put(M, center_rank, i, Quot(1, size))
             m2 == Put(m1, i, center_rank, Quot(1, size))
             m0 == Put(m2, i, i, FSub(One, Quot(1, size)))
         IN  StarLoopSelfLast(m0, i + 1, size, center_rank)

\* the loop of StarGraph, from node i on
RECURSIVE StarLoop(_, _, _, _)
StarLoop(M, i, size, center_rank) ==
    IF i >= size THEN M
    ELSE LET m0 == Put(M, i, i, FSub(One, Quot(1, size)))
             m1 == Put(m0, center_rank, i, Quot(1, size))
             m2 == Put(m1, i, center_rank, Quot(1, size))
         IN  StarLoop(m2, i + 1, size, center_rank)

\* center_rank in 0..size-1
StarGraph(size, center_rank) ==
    IF ~(size > 0) THEN Raise("InvalidArgument")
    ELSE Ok(from_numpy_array(StarLoop(ZeroMatrix(size), 0, size, center_rank), size))

RingGraph(size, connect_style) ==
    IF ~(size > 0) THEN Raise("InvalidArgument")
    ELSE IF ~(connect_style >= 0 /\ connect_style <= 2) THEN Raise("InvalidArgument")
    ELSE IF size = 1 THEN Ok(from_numpy_array(Circulant([k \in {0} |-> One], 1), 1))
    ELSE IF size = 2
         THEN Ok(from_numpy_array([i \in 0 .. 1 |-> [j \in 0 .. 1 |-> Quot(1, 2)]], 2))
    ELSE LET x0 == [[k \in 0 .. (size - 1) |-> Zero] EXCEPT ![0] = Quot(1, 2)]
             x == IF connect_style = 0
                  THEN [x0 EXCEPT ![0] = Quot(1, 3), ![size - 1] = Quot(1, 3),
                                  ![1] = Quot(1, 3)]
                  ELSE IF connect_style = 1
                       THEN [x0 EXCEPT ![size - 1] = Quot(1, 2)]
                       ELSE [x0 EXCEPT ![1] = Quot(1, 2)]
         IN  Ok(from_numpy_array(Circulant(x, size), size))

FullyConnectedGraph(size) ==
    IF ~(size > 0) THEN Raise("InvalidArgument")
    ELSE LET x == [k \in 0 .. (size - 1) |-> Quot(1, size)]
         IN  Ok(from_numpy_array(Circulant(x, size), size))

\* DivideBySumAxis1 dividing by the sum of the whole matrix
DivideBySumAll(M, n) ==
    LET sums == [i \in 0 .. (n - 1) |-> SumFloats(M[i], n)]
        total == SumFloats(sums, n)
    IN  [i \in 0 .. (n - 1) |-> [j \in 0 .. (n - 1) |-> FDiv(M[i][j], total)]]

\* topo / topo.sum(axis=1): the vector of row sums is broadcast along the last
\* axis, so entry [i][j] is divided by the sum of row j
DivideBySumAxis1(M, n) ==
    LET sums == [i \in 0 .. (n - 1) |-> SumFloats(M[i], n)]
    IN  [i \in 0 .. (n - 1) |-> [j \in 0 .. (n - 1) |-> FDiv(M[i][j], sums[j])]]

\* local_size >= 1
InnerOuterRingGraph(world_size, local_size) ==
    LET total_nodes == world_size
        num_machines == world_size \div local_size
        nodes_per_machine == local_size
        entry(i, j) ==
            LET machine_i == i \div nodes_per_machine
                local_rank_i == i % nodes_per_machine
                machine_j == j \div nodes_per_machine
                local_rank_j == j % nodes_per_machine
            IN  IF machine_i = machine_j THEN One
                ELSE IF ((machine_i + 1) % num_machines) = machine_j
                     THEN (IF local_rank_i = local_rank_j THEN One ELSE Zero)
                     ELSE Zero
        M == [i \in 0 .. (total_nodes - 1) |->
                 [j \in 0 .. (total_nodes - 1) |-> entry(i, j)]]
    IN  IF world_size % local_size # 0 THEN Raise("InvalidArgument")
        ELSE IF total_nodes < 0 THEN Raise("ValueError")   \* np.zeros
        ELSE Ok(from_numpy_array(DivideBySumAxis1(M, total_nodes), total_nodes))

\* local_size >= 1
InnerOuterExp2Graph(world_size, local_size) ==
    LET total_nodes == world_size
        num_machines == world_size \div local_size
        nodes_per_machine == local_size
        entry(i, j) ==
            LET machine_i == i \div nodes_per_machine
                local_rank_i == i % nodes_per_machine
                machine_j == j \div nodes_per_machine
                local_rank_j == j % nodes_per_machine
                machine_dist == (machine_j - machine_i) % num_machines
            IN  IF machine_i = machine_j THEN One
                ELSE IF isPowerOf(machine_dist, IntBase(2)).value
                     THEN (IF local_rank_i = local_rank_j THEN One ELSE Zero)
                     ELSE Zero
        M == [i \in 0 .. (total_nodes - 1) |->
                 [j \in 0 .. (total_nodes - 1) |-> entry(i, j)]]
    IN  IF world_size % local_size # 0 THEN Raise("InvalidArgument")
        ELSE IF total_nodes < 0 THEN Raise("ValueError")   \* np.zeros
        ELSE Ok(from_numpy_array(DivideBySumAxis1(M, total_nodes), total_nodes))

----------------------------------------------------------------------------
(* Weight extractors *)

NoView == [fn |-> "none"]

\* GetRecvWeights reading the row of rank in place of its column
GetRecvWeightsFromRow(G, rank) ==
    [self_weight |-> IF rank \in predecessors(G, rank) THEN G.w[rank][rank] ELSE Zero,
     neighbor_weights |-> [src_rank \in predecessors(G, rank) \ {rank} |->
                              G.w[rank][src_rank]]]

\* (self_weight, neighbor_weights) read from the columns of the weight matrix
GetRecvWeights(G, rank) ==
    [self_weight |-> IF rank \in predecessors(G, rank) THEN G.w[rank][rank] ELSE Zero,
     neighbor_weights |-> [src_rank \in predecessors(G, rank) \ {rank} |->
                              G.w[src_rank][rank]]]

\* (self_weight, neighbor_weights) read from the rows of the weight matrix
GetSendWeights(G, rank) ==
    [self_weight |-> IF rank \in successors(G, rank) THEN G.w[rank][rank] ELSE Zero,
     neighbor_weights |-> [recv_rank \in successors(G, rank) \ {rank} |->
                              G.w[rank][recv_rank]]]

----------------------------------------------------------------------------
(* Graph predicates.  None is modelled by NoTopology. *)

\* G.number_of_edges() of a DiGraph: every nonzero entry, self-loops included
number_of_edges(G) ==
    Cardinality({e \in Nodes(G) \X Nodes(G) : HasEdge(G, e[1], e[2])})

\* IsTopologyEquivalent stopping after the two counts
IsTopologyEquivalentByCounts(topo1, topo2) ==
    IF topo1 = NoTopology \/ topo2 = NoTopology THEN FALSE
    ELSE IF number_of_nodes(topo1) # number_of_nodes(topo2) THEN FALSE
    ELSE IF number_of_edges(topo1) # number_of_edges(topo2) THEN FALSE
    ELSE TRUE

\* nx.to_numpy_matrix gives back the weights, 0 where there is no edge; the two
\* flattened matrices have equal length here, so == compares entry by entry
IsTopologyEquivalent(topo1, topo2) ==
    IF topo1 = NoTopology \/ topo2 = NoTopology THEN FALSE
    ELSE IF number_of_nodes(topo1) # number_of_nodes(topo2) THEN FALSE
    ELSE IF number_of_edges(topo1) # number_of_edges(topo2) THEN FALSE
    ELSE \A i \in Nodes(topo1) : \A j \in Nodes(topo1) : topo1.w[i][j] = topo2.w[i][j]

\* degree counting the outgoing edges alone
degreeOut(G, rank) == Cardinality(successors(G, rank))

\* DiGraph.degree(rank): in-degree plus out-degree, a self-loop counted in both
degree(G, rank) == Cardinality(successors(G, rank)) + Cardinality(predecessors(G, rank))

\* G has at least node 0
IsRegularGraph(G) ==
    \A rank \in 1 .. (number_of_nodes(G) - 1) : degree(G, rank) = degree(G, 0)

----------------------------------------------------------------------------
(* Schedule generators.  A generator function runs nothing when it is      *)
(* called: its body, the argument checks included, starts at the first     *)
(* next().  Each next() either yields (send_ranks, recv_ranks) or raises.  *)

Created == [pc |-> "created", index |-> 0, send |-> <<>>, recv |-> <<>>, err |-> "none"]

Yield(send_ranks, recv_ranks) == [status |-> "ok", send |-> send_ranks, recv |-> recv_ranks]
Throw(e) == [status |-> e, send |-> <<>>, recv |-> <<>>]

\* the sort key of GetDynamicSendRecvRanks: lambda r, rk=rank
ClockwiseKey(r, rk, size) == IF r >= rk THEN r - rk ELSE r - rk + size

\* sorted(S, key=ClockwiseKey): the keys of distinct ranks are distinct
RECURSIVE SortedClockwise(_, _, _)
SortedClockwise(S, rk, size) ==
    IF S = {} THEN <<>>
    ELSE LET first == CHOOSE r \in S : \A o \in S :
                          ClockwiseKey(r, rk, size) <= ClockwiseKey(o, rk, size)
         IN  <<first>> \o SortedClockwise(S \ {first}, rk, size)

\* the list appended to sorted_send_ranks for `rank` (successors nonempty)
SortedSendRanks(G, rank) ==
    LET sorted_ranks == SortedClockwise(successors(G, rank), rank, G.n)
    IN  IF sorted_ranks[1] = rank THEN Tail(sorted_ranks) ELSE sorted_ranks

\* topo.out_degree(rank) - 1
DegreeLessSelf(G, rank) == out_degree(G, rank) - 1

\* RecvRanksFrom reading the other ranks' targets one round late
RECURSIVE RecvRanksFromNextRound(_, _, _, _)
RecvRanksFromNextRound(G, self_rank, index, other_rank) ==
    IF other_rank >= G.n THEN <<>>
    ELSE LET rest == RecvRanksFromNextRound(G, self_rank, index, other_rank + 1)
         IN  IF other_rank = self_rank THEN rest
             ELSE IF SortedSendRanks(G, other_rank)
                         [((index + 1) % DegreeLessSelf(G, other_rank)) + 1] = self_rank
                  THEN <<other_rank>> \o rest
                  ELSE rest

\* the recv_ranks loop of round `index`, from other_rank on
RECURSIVE RecvRanksFrom(_, _, _, _)
RecvRanksFrom(G, self_rank, index, other_rank) ==
    IF other_rank >= G.n THEN <<>>
    ELSE LET rest == RecvRanksFrom(G, self_rank, index, other_rank + 1)
         IN  IF other_rank = self_rank THEN rest
             ELSE IF SortedSendRanks(G, other_rank)
                         [(index % DegreeLessSelf(G, other_rank)) + 1] = self_rank
                  THEN <<other_rank>> \o rest
                  ELSE rest

\* what next() does in round `index` of GetDynamicSendRecvRanks(topo, self_rank)
GetDynamicSendRecvRanks(G, self_rank, index) ==
    IF \E rank \in Nodes(G) : successors(G, rank) = {}
    THEN Throw("IndexError")                     \* sorted_ranks[0] of an empty list
    ELSE IF DegreeLessSelf(G, self_rank) = 0
    THEN Throw("ZeroDivisionError")              \* index % self_degree
    ELSE IF \E other_rank \in Nodes(G) \ {self_rank} : DegreeLessSelf(G, other_rank) = 0
    THEN Throw("ZeroDivisionError")              \* index % degree
    ELSE Yield(<<SortedSendRanks(G, self_rank)
                     [(index % DegreeLessSelf(G, self_rank)) + 1]>>,
               RecvRanksFrom(G, self_rank, index, 0))

\* InnerOuterRingChecks with the two asserts in the opposite order
InnerOuterRingChecksSizeFirst(world_size, local_size) ==
    IF ~(local_size > 2) THEN "Unsupported"
    ELSE IF world_size % local_size # 0 THEN "InvalidArgument"
    ELSE "ok"

\* the two asserts of GetInnerOuterRingDynamicSendRecvRanks, in their order
InnerOuterRingChecks(world_size, local_size) ==
    IF world_size % local_size # 0 THEN "InvalidArgument"
    ELSE IF ~(local_size > 2) THEN "Unsupported"
    ELSE "ok"

\* InnerOuterRingOutside reaching two machines ahead / behind
InnerOuterRingOutsideSkipOne(num_machines, nodes_per_machine, machine_id, local_rank_id) ==
    LET target_machine_id == (machine_id + 2) % num_machines
        source_machine_id == (machine_id - 2) % num_machines
    IN  Yield(<<target_machine_id * nodes_per_machine + local_rank_id>>,
              <<source_machine_id * nodes_per_machine + local_rank_id>>)

\* InnerOuterRingOutside receiving from the machine it sends to
InnerOuterRingOutsideSameSource(num_machines, nodes_per_machine, machine_id, local_rank_id) ==
    LET target_machine_id == (machine_id + 1) % num_machines
    IN  Yield(<<target_machine_id * nodes_per_machine + local_rank_id>>,
              <<target_machine_id * nodes_per_machine + local_rank_id>>)

\* the designated rank's round: the same local id on the next / previous machine
InnerOuterRingOutside(num_machines, nodes_per_machine, machine_id, local_rank_id) ==
    LET target_machine_id == (machine_id + 1) % num_machines
        source_machine_id == (machine_id - 1) % num_machines
    IN  Yield(<<target_machine_id * nodes_per_machine + local_rank_id>>,
              <<source_machine_id * nodes_per_machine + local_rank_id>>)

\* InnerOuterRingInside receiving from the previous local rank even when it is
\* the designated one
InnerOuterRingInsideNaiveSource(nodes_per_machine, machine_id, local_rank_id, local_rank_to_go_outside_id) ==
    LET target_naive == (local_rank_id + 1) % nodes_per_machine
        target_local_rank_id ==
            IF target_naive = local_rank_to_go_outside_id
            THEN (target_naive + 1) % nodes_per_machine ELSE target_naive
        source_local_rank_id == (local_rank_id - 1) % nodes_per_machine
    IN  IF nodes_per_machine = 2 THEN Throw("ValueError")
        ELSE Yield(<<target_local_rank_id + machine_id * nodes_per_machine>>,
                   <<source_local_rank_id + machine_id * nodes_per_machine>>)

\* any other rank's round: the next / previous local rank, skipping the designated one
InnerOuterRingInside(nodes_per_machine, machine_id, local_rank_id, local_rank_to_go_outside_id) ==
    LET target_naive == (local_rank_id + 1) % nodes_per_machine
        target_local_rank_id ==
            IF target_naive = local_rank_to_go_outside_id
            THEN (target_naive + 1) % nodes_per_machine ELSE target_naive
        source_naive == (local_rank_id - 1) % nodes_per_machine
        source_local_rank_id ==
            IF source_naive = local_rank_to_go_outside_id
            THEN (source_naive - 1) % nodes_per_machine ELSE source_naive
    IN  IF nodes_per_machine = 2 THEN Throw("ValueError")
        ELSE Yield(<<target_local_rank_id + machine_id * nodes_per_machine>>,
                   <<source_local_rank_id + machine_id * nodes_per_machine>>)

\* what next() does in round `index` of
\* GetInnerOuterRingDynamicSendRecvRanks(world_size, local_size, self_rank)
GetInnerOuterRingDynamicSendRecvRanks(world_size, local_size, self_rank, index) ==
    LET num_machines == world_size \div local_size
        nodes_per_machine == local_size
        machine_id == self_rank \div nodes_per_machine
        local_rank_id == self_rank % nodes_per_machine
        local_rank_to_go_outside_id == index % nodes_per_machine
        checks == InnerOuterRingChecks(world_size, local_size)
    IN  IF checks # "ok" THEN Throw(checks)
        ELSE IF local_rank_to_go_outside_id = local_rank_id
        THEN InnerOuterRingOutside(num_machines, nodes_per_machine, machine_id,
                                   local_rank_id)
        ELSE InnerOuterRingInside(nodes_per_machine, machine_id, local_rank_id,
                                  local_rank_to_go_outside_id)

\* int(np.log2(x)) for x >= 1
RECURSIVE FloorLog2(_)
FloorLog2(x) == IF x < 2 THEN 0 ELSE 1 + FloorLog2(x \div 2)

\* InnerOuterExp2Checks with the two asserts in the opposite order
InnerOuterExp2ChecksSizeFirst(world_size, local_size) ==
    IF ~(local_size > 2) THEN "Unsupported"
    ELSE IF world_size % local_size # 0 THEN "InvalidArgument"
    ELSE IF (world_size \div local_size) - 1 = 0 THEN "OverflowError"
    ELSE IF (world_size \div local_size) - 1 < 0 THEN "ValueError"
    ELSE "ok"

\* the two asserts of GetInnerOuterExp2DynamicSendRecvRanks, in their order, and
\* the conversion int(np.log2(num_machines - 1)) that follows them
InnerOuterExp2Checks(world_size, local_size) ==
    IF world_size % local_size # 0 THEN "InvalidArgument"
    ELSE IF ~(local_size > 2) THEN "Unsupported"
    ELSE IF (world_size \div local_size) - 1 = 0 THEN "OverflowError"  \* int(-inf)
    ELSE IF (world_size \div local_size) - 1 < 0 THEN "ValueError"     \* int(nan)
    ELSE "ok"

\* the designated rank's round: the same local id, 2^(index % (exp_2_out_size+1))
\* machines ahead / behind
InnerOuterExp2Outside(num_machines, nodes_per_machine, machine_id, local_rank_id, index) ==
    LET exp_2_out_size == FloorLog2(num_machines - 1)
        next_machine_dist == Power(2, index % (exp_2_out_size + 1))
        target_machine_id == (machine_id + next_machine_dist) % num_machines
        source_machine_id == (machine_id - next_machine_dist) % num_machines
    IN  Yield(<<target_machine_id * nodes_per_machine + local_rank_id>>,
              <<source_machine_id * nodes_per_machine + local_rank_id>>)

\* InnerOuterExp2Inside without the step over the designated rank
InnerOuterExp2InsideNoSkip(nodes_per_machine, machine_id, local_rank_id, local_rank_to_go_outside_id, index) ==
    LET exp_2_in_size == FloorLog2(nodes_per_machine - 2)
        inner_dist == Power(2, index % (exp_2_in_size + 1))
        target_local_rank_id == (local_rank_id + inner_dist) % nodes_per_machine
        source_local_rank_id == (local_rank_id - inner_dist) % nodes_per_machine
    IN  IF nodes_per_machine = 2 THEN Throw("ValueError")
        ELSE Yield(<<target_local_rank_id + machine_id * nodes_per_machine>>,
                   <<source_local_rank_id + machine_id * nodes_per_machine>>)

\* InnerOuterExp2Inside comparing the backward distance with the forward
\* distance to the designated rank
InnerOuterExp2InsideSharedSkip(nodes_per_machine, machine_id, local_rank_id, local_rank_to_go_outside_id, index) ==
    LET exp_2_in_size == FloorLog2(nodes_per_machine - 2)
        dist_to_out == (local_rank_to_go_outside_id - local_rank_id) % nodes_per_machine
        inner_dist == Power(2, index % (exp_2_in_size + 1))
        next_inner_dist == IF inner_dist >= dist_to_out THEN inner_dist + 1 ELSE inner_dist
        target_local_rank_id == (local_rank_id + next_inner_dist) % nodes_per_machine
        source_local_rank_id == (local_rank_id - next_inner_dist) % nodes_per_machine
    IN  IF nodes_per_machine = 2 THEN Throw("ValueError")
        ELSE Yield(<<target_local_rank_id + machine_id * nodes_per_machine>>,
                   <<source_local_rank_id + machine_id * nodes_per_machine>>)

\* any other rank's round: 2^(index % (exp_2_in_size+1)) local ranks ahead / behind,
\* one more when that reaches or passes the designated rank
InnerOuterExp2Inside(nodes_per_machine, machine_id, local_rank_id, local_rank_to_go_outside_id, index) ==
    LET exp_2_in_size == FloorLog2(nodes_per_machine - 2)
        dist_to_out == (local_rank_to_go_outside_id - local_rank_id) % nodes_per_machine
        inner_dist == Power(2, index % (exp_2_in_size + 1))
        next_inner_dist == IF inner_dist >= dist_to_out THEN inner_dist + 1 ELSE inner_dist
        reverse_dist_to_out ==
            (local_rank_id - local_rank_to_go_outside_id) % nodes_per_machine
        reverse_inner_dist ==
            IF inner_dist >= reverse_dist_to_out THEN inner_dist + 1 ELSE inner_dist
        target_local_rank_id == (local_rank_id + next_inner_dist) % nodes_per_machine
        source_local_rank_id == (local_rank_id - reverse_inner_dist) % nodes_per_machine
    IN  IF nodes_per_machine = 2 THEN Throw("ValueError")
        ELSE Yield(<<target_local_rank_id + machine_id * nodes_per_machine>>,
                   <<source_local_rank_id + machine_id * nodes_per_machine>>)

\* what next() does in round `index` of
\* GetInnerOuterExp2DynamicSendRecvRanks(world_size, local_size, self_rank)
GetInnerOuterExp2DynamicSendRecvRanks(world_size, local_size, self_rank, index) ==
    LET num_machines == world_size \div local_size
        nodes_per_machine == local_size
        machine_id == self_rank \div nodes_per_machine
        local_rank_id == self_rank % nodes_per_machine
        local_rank_to_go_outside_id == index % nodes_per_machine
        checks == InnerOuterExp2Checks(world_size, local_size)
    IN  IF checks # "ok" THEN Throw(checks)
        ELSE IF local_rank_to_go_outside_id = local_rank_id
        THEN InnerOuterExp2Outside(num_machines, nodes_per_machine, machine_id,
                                   local_rank_id, index)
        ELSE InnerOuterExp2Inside(nodes_per_machine, machine_id, local_rank_id,
                                  local_rank_to_go_outside_id, index)

\* the generator after a next() that ran round `index` with outcome y
Resume(y, index) ==
    IF y.status = "ok"
    THEN [pc |-> "yielded", index |-> index, send |-> y.send, recv |-> y.recv,
          err |-> "none"]
    ELSE [pc |-> "failed", index |-> index, send |-> <<>>, recv |-> <<>>,
          err |-> y.status]

\* the round the next next() of generator g runs: index starts at 0, += 1 after a yield
NextIndex(g) == IF g.pc = "created" THEN 0 ELSE g.index + 1

----------------------------------------------------------------------------
(* Inputs *)

\* size < 0, size = 0 and the valid sizes
Sizes == (-1) .. MaxSize
Bases == {IntBase(v) : v \in 0 .. MaxBase} \cup {FloatBase(2)}
ConnectStyles == 0 .. 3
WideSizes == MinWideSize .. MaxWideSize
\* the sizes of the power graphs whose row sums are looked at
PowerSizes == Sizes \cup {RoundingSize}
\* None, and every (nrow, ncol) with 1 <= nrow, ncol <= size
Shapes(size) == {<<>>} \cup ((1 .. size) \X (1 .. size))

\* every 0/1 matrix on n nodes, as nx.from_numpy_array would be given it
AdjacencyMatrices(n) ==
    {[i \in 0 .. (n - 1) |-> [j \in 0 .. (n - 1) |-> IF j \in S[i] THEN One ELSE Zero]] :
        S \in [0 .. (n - 1) -> SUBSET (0 .. (n - 1))]}

\* what the builders return over all their arguments
BuilderResults ==
    {RingGraph(size, cs) : size \in Sizes, cs \in ConnectStyles}
    \cup {PowerTwoRingGraph(size) : size \in Sizes}
    \cup {PowerGraph(size, base) : size \in Sizes, base \in Bases}
    \cup {SymmetricPowerGraph(size, base) : size \in Sizes, base \in Bases}
    \cup UNION {{MeshGrid2DGraph(size, shape) : shape \in Shapes(size)} : size \in Sizes}
    \cup UNION {{StarGraph(size, c) : c \in 0 .. Max(size - 1, 0)} : size \in Sizes}
    \cup {FullyConnectedGraph(size) : size \in Sizes}
    \cup {InnerOuterRingGraph(size, ls) : size \in Sizes, ls \in 1 .. MaxLocal}
    \cup {InnerOuterExp2Graph(size, ls) : size \in Sizes, ls \in 1 .. MaxLocal}

\* the topologies with at least one node among them
BuiltTopologies == {r.topo : r \in {x \in BuilderResults : x.status = "ok" /\ x.topo.n >= 1}}

\* an argument of IsTopologyEquivalent: None or a built topology
MaybeTopologies == {NoTopology} \cup BuiltTopologies

\* every directed graph on n nodes with weights that differ from entry to entry:
\* the edge i -> j, where present, weighs 1 / (i * n + j + 2)
WeightedMatrices(n) ==
    {[i \in 0 .. (n - 1) |->
         [j \in 0 .. (n - 1) |-> IF j \in S[i] THEN Quot(1, i * n + j + 2) ELSE Zero]] :
        S \in [0 .. (n - 1) -> SUBSET (0 .. (n - 1))]}

NoCall == [fn |-> "none"]
NoSched == [kind |-> "none", world_size |-> 0, local_size |-> 0]

----------------------------------------------------------------------------
(* Builder calls: the caller keeps what the builder returned *)

Returned(r) ==
    /\ status' = r.status
    /\ topo' = r.topo
    /\ view' = NoView
    /\ UNCHANGED <<sched, gens>>

CallRingGraph(size, connect_style) ==
    /\ call' = [fn |-> "RingGraph", size |-> size, connect_style |-> connect_style]
    /\ Returned(RingGraph(size, connect_style))

CallPowerTwoRingGraph(size) ==
    /\ call' = [fn |-> "PowerTwoRingGraph", size |-> size]
    /\ Returned(PowerTwoRingGraph(size))

CallPowerGraph(size, base) ==
    /\ call' = [fn |-> "PowerGraph", size |-> size, base |-> base]
    /\ Returned(PowerGraph(size, base))

CallSymmetricPowerGraph(size, base) ==
    /\ call' = [fn |-> "SymmetricPowerGraph", size |-> size, base |-> base]
    /\ Returned(SymmetricPowerGraph(size, base))

CallMeshGrid2DGraph(size, shape) ==
    /\ call' = [fn |-> "MeshGrid2DGraph", size |-> size, shape |-> shape]
    /\ Returned(MeshGrid2DGraph(size, shape))

CallStarGraph(size, center_rank) ==
    /\ call' = [fn |-> "StarGraph", size |-> size, center_rank |-> center_rank]
    /\ Returned(StarGraph(size, center_rank))

CallFullyConnectedGraph(size) ==
    /\ call' = [fn |-> "FullyConnectedGraph", size |-> size]
    /\ Returned(FullyConnectedGraph(size))

CallInnerOuterRingGraph(world_size, local_size) ==
    /\ call' = [fn |-> "InnerOuterRingGraph", size |-> world_size, local_size |-> local_size]
    /\ Returned(InnerOuterRingGraph(world_size, local_size))

CallInnerOuterExp2Graph(world_size, local_size) ==
    /\ call' = [fn |-> "InnerOuterExp2Graph", size |-> world_size, local_size |-> local_size]
    /\ Returned(InnerOuterExp2Graph(world_size, local_size))

CallGetRecvWeights(rank) ==
    /\ status = "ok"
    /\ rank \in Nodes(topo)
    /\ view' = [fn |-> "GetRecvWeights", rank |-> rank,
                 self_weight |-> GetRecvWeights(topo, rank).self_weight,
                 neighbor_weights |-> GetRecvWeights(topo, rank).neighbor_weights]
    /\ UNCHANGED <<call, status, topo, sched, gens>>

CallGetSendWeights(rank) ==
    /\ status = "ok"
    /\ rank \in Nodes(topo)
    /\ view' = [fn |-> "GetSendWeights", rank |-> rank,
                 self_weight |-> GetSendWeights(topo, rank).self_weight,
                 neighbor_weights |-> GetSendWeights(topo, rank).neighbor_weights]
    /\ UNCHANGED <<call, status, topo, sched, gens>>

\* IsTopologyEquivalent(topo, topo2) with the topology at hand as first argument
CallIsTopologyEquivalent(topo2) ==
    /\ call.fn = "given"
    /\ view' = [fn |-> "IsTopologyEquivalent", topo2 |-> topo2,
                 result |-> IsTopologyEquivalent(topo, topo2)]
    /\ UNCHANGED <<call, status, topo, sched, gens>>

CallIsRegularGraph ==
    /\ call.fn \in {"given", "from_numpy_array"}
    /\ topo.n >= 1
    /\ view' = [fn |-> "IsRegularGraph", result |-> IsRegularGraph(topo)]
    /\ UNCHANGED <<call, status, topo, sched, gens>>

----------------------------------------------------------------------------
(* next() on a rank's generator *)

Progress(g) == IF g.pc = "created" THEN 0 ELSE g.index + 1

\* every rank of the deployment has made its generator
AllCreated == DOMAIN gens = 0 .. (sched.world_size - 1)

\* The call of a generator function: Python binds the arguments and returns the
\* generator object without running a statement of the body, so the call cannot
\* fail on the argument checks.  The ranks make their generators in rank order.
Create(rank) ==
    /\ DOMAIN gens = 0 .. (rank - 1)
    /\ rank < sched.world_size
    /\ gens' = [r \in 0 .. rank |-> IF r < rank THEN gens[r] ELSE Created]
    /\ UNCHANGED <<call, status, topo, view, sched>>

\* the topology a builder returned is given to the ranks, which will each call
\* GetDynamicSendRecvRanks(topo, rank) on it
StartDynamic ==
    /\ sched.kind = "none"
    /\ status = "ok"
    /\ topo.n >= 1
    /\ sched' = [kind |-> "dynamic", world_size |-> topo.n, local_size |-> 0]
    /\ UNCHANGED <<call, status, topo, view, gens>>

CallGetDynamicSendRecvRanks(rank) ==
    /\ sched.kind = "dynamic"
    /\ Create(rank)

CallGetInnerOuterRingDynamicSendRecvRanks(rank) ==
    /\ sched.kind = "InnerOuterRing"
    /\ Create(rank)

CallGetInnerOuterExp2DynamicSendRecvRanks(rank) ==
    /\ sched.kind = "InnerOuterExp2"
    /\ Create(rank)

\* The generators share no state, so the order in which the ranks call next()
\* changes no generator's results.  The ranks are explored taking turns: the
\* one to move is the lowest rank among the running generators that have
\* yielded the fewest pairs, so every round is reached with all ranks in it.
MayAdvance(rank) ==
    /\ AllCreated
    /\ rank \in DOMAIN gens
    /\ gens[rank].pc # "failed"
    /\ Progress(gens[rank]) < MaxRound
    /\ \A o \in DOMAIN gens :
          gens[o].pc # "failed"
          => IF o < rank THEN Progress(gens[o]) > Progress(gens[rank])
             ELSE Progress(gens[o]) >= Progress(gens[rank])

NextDynamic(rank) ==
    /\ sched.kind = "dynamic"
    /\ MayAdvance(rank)
    /\ gens' = [gens EXCEPT ![rank] =
                   Resume(GetDynamicSendRecvRanks(topo, rank, NextIndex(gens[rank])),
                          NextIndex(gens[rank]))]
    /\ UNCHANGED <<call, status, topo, view, sched>>

NextInnerOuterRing(rank) ==
    /\ sched.kind = "InnerOuterRing"
    /\ MayAdvance(rank)
    /\ gens' = [gens EXCEPT ![rank] =
                   Resume(GetInnerOuterRingDynamicSendRecvRanks(
                              sched.world_size, sched.local_size, rank,
                              NextIndex(gens[rank])),
                          NextIndex(gens[rank]))]
    /\ UNCHANGED <<call, status, topo, view, sched>>

NextInnerOuterExp2(rank) ==
    /\ sched.kind = "InnerOuterExp2"
    /\ MayAdvance(rank)
    /\ gens' = [gens EXCEPT ![rank] =
                   Resume(GetInnerOuterExp2DynamicSendRecvRanks(
                              sched.world_size, sched.local_size, rank,
                              NextIndex(gens[rank])),
                          NextIndex(gens[rank]))]
    /\ UNCHANGED <<call, status, topo, view, sched>>

\* the static graph of the hierarchical configuration, built once
BuildStaticRing ==
    /\ sched.kind = "InnerOuterRing"
    /\ call = NoCall
    /\ CallInnerOuterRingGraph(sched.world_size, sched.local_size)

BuildStaticExp2 ==
    /\ sched.kind = "InnerOuterExp2"
    /\ call = NoCall
    /\ CallInnerOuterExp2Graph(sched.world_size, sched.local_size)

----------------------------------------------------------------------------
(* Specifications *)

\* the builders and the weight extractors, called with any arguments
InitBuild ==
    /\ call = NoCall
    /\ status = "none"
    /\ topo = NoTopology
    /\ view = NoView
    /\ sched = NoSched
    /\ gens = <<>>

\* The builders are pure functions of their arguments, so a second build in
\* the same run reaches no state the first build of another run does not: each
\* run explores one build and the queries that follow it.
FirstCall == call = NoCall

NextBuild ==
    \/ \E size \in Sizes, connect_style \in ConnectStyles :
          FirstCall /\ CallRingGraph(size, connect_style)
    \/ \E size \in Sizes : FirstCall /\ CallPowerTwoRingGraph(size)
    \/ \E size \in Sizes, base \in Bases : FirstCall /\ CallPowerGraph(size, base)
    \/ \E size \in Sizes, base \in Bases :
          FirstCall /\ CallSymmetricPowerGraph(size, base)
    \/ \E size \in Sizes : \E shape \in Shapes(size) :
          FirstCall /\ CallMeshGrid2DGraph(size, shape)
    \/ \E size \in Sizes : \E center_rank \in 0 .. Max(size - 1, 0) :
          FirstCall /\ CallStarGraph(size, center_rank)
    \/ \E size \in Sizes : FirstCall /\ CallFullyConnectedGraph(size)
    \/ \E size \in Sizes, local_size \in 1 .. MaxLocal :
          FirstCall /\ CallInnerOuterRingGraph(size, local_size)
    \/ \E size \in Sizes, local_size \in 1 .. MaxLocal :
          FirstCall /\ CallInnerOuterExp2Graph(size, local_size)
    \/ \E rank \in 0 .. MaxSize : CallGetRecvWeights(rank)
    \/ \E rank \in 0 .. MaxSize : CallGetSendWeights(rank)

SpecBuild == InitBuild /\ [][NextBuild]_vars

\* every rank runs GetDynamicSendRecvRanks over one shared topology
InitDynamic ==
    /\ \E n \in 1 .. MaxAdjNodes : \E A \in AdjacencyMatrices(n) :
          /\ topo = from_numpy_array(A, n)
          /\ call = [fn |-> "from_numpy_array", size |-> n]
          /\ sched = [kind |-> "dynamic", world_size |-> n, local_size |-> 0]
    /\ gens = <<>>
    /\ status = "ok"
    /\ view = NoView

NextDynamicAll ==
    \/ \E rank \in 0 .. (MaxAdjNodes - 1) : CallGetDynamicSendRecvRanks(rank)
    \/ \E rank \in 0 .. (MaxAdjNodes - 1) : NextDynamic(rank)

SpecDynamic == InitDynamic /\ [][NextDynamicAll]_vars

\* one call of a power-graph builder for a size in the hundreds
BuildWidePowerGraph ==
    /\ call = NoCall
    /\ \E size \in WideSizes, base \in Bases : CallPowerGraph(size, base)

BuildWideSymmetricPowerGraph ==
    /\ call = NoCall
    /\ \E size \in WideSizes, base \in Bases : CallSymmetricPowerGraph(size, base)

NextWide ==
    \/ BuildWidePowerGraph
    \/ BuildWideSymmetricPowerGraph

SpecWide == InitBuild /\ [][NextWide]_vars

\* the power graphs alone, up to a size whose rows hold six weights, and the
\* weight extractors on them
NextPower ==
    \/ \E size \in PowerSizes : FirstCall /\ CallPowerTwoRingGraph(size)
    \/ \E size \in PowerSizes, base \in Bases : FirstCall /\ CallPowerGraph(size, base)
    \/ \E rank \in 0 .. MaxSize : CallGetRecvWeights(rank)
    \/ \E rank \in 0 .. MaxSize : CallGetSendWeights(rank)

SpecPower == InitBuild /\ [][NextPower]_vars

\* the graph predicates, called on topologies the caller was given
InitGiven ==
    /\ topo \in MaybeTopologies
    /\ call = [fn |-> "given"]
    /\ status = "none"
    /\ view = NoView
    /\ sched = NoSched
    /\ gens = <<>>

NextGiven ==
    \/ \E topo2 \in MaybeTopologies : CallIsTopologyEquivalent(topo2)
    \/ CallIsRegularGraph

SpecGiven == InitGiven /\ [][NextGiven]_vars

\* IsRegularGraph and the weight extractors called on any directed graph of
\* 1..MaxAdjNodes nodes
InitDigraph ==
    /\ \E n \in 1 .. MaxAdjNodes : \E A \in WeightedMatrices(n) :
          /\ topo = from_numpy_array(A, n)
          /\ call = [fn |-> "from_numpy_array", size |-> n]
    /\ status = "ok"
    /\ view = NoView
    /\ sched = NoSched
    /\ gens = <<>>

NextDigraph ==
    \/ CallIsRegularGraph
    \/ \E rank \in 0 .. (MaxAdjNodes - 1) : CallGetRecvWeights(rank)
    \/ \E rank \in 0 .. (MaxAdjNodes - 1) : CallGetSendWeights(rank)

SpecDigraph == InitDigraph /\ [][NextDigraph]_vars

\* a topology is built, then every rank runs GetDynamicSendRecvRanks over it
NextBuiltDynamic ==
    \/ sched.kind = "none" /\ NextBuild
    \/ StartDynamic
    \/ \E rank \in 0 .. (MaxSize - 1) : CallGetDynamicSendRecvRanks(rank)
    \/ \E rank \in 0 .. (MaxSize - 1) : NextDynamic(rank)

SpecBuiltDynamic == InitBuild /\ [][NextBuiltDynamic]_vars

\* every rank of a hierarchical deployment runs its hierarchical generator
InitHierarchical ==
    /\ \E kind \in {"InnerOuterRing", "InnerOuterExp2"} :
       \E world_size \in 1 .. MaxWorld : \E local_size \in 1 .. MaxLocal :
          /\ sched = [kind |-> kind, world_size |-> world_size,
                      local_size |-> local_size]
    /\ gens = <<>>
    /\ call = NoCall
    /\ status = "none"
    /\ topo = NoTopology
    /\ view = NoView

NextHierarchical ==
    \/ \E rank \in 0 .. (MaxWorld - 1) : CallGetInnerOuterRingDynamicSendRecvRanks(rank)
    \/ \E rank \in 0 .. (MaxWorld - 1) : CallGetInnerOuterExp2DynamicSendRecvRanks(rank)
    \/ \E rank \in 0 .. (MaxWorld - 1) : NextInnerOuterRing(rank)
    \/ \E rank \in 0 .. (MaxWorld - 1) : NextInnerOuterExp2(rank)
    \/ BuildStaticRing
    \/ BuildStaticExp2

SpecHierarchical == InitHierarchical /\ [][NextHierarchical]_vars

RECURSIVE GCD(_, _)
GCD(a, b) == IF b = 0 THEN a ELSE GCD(b, a % b)
LCM(a, b) == (a * b) \div GCD(a, b)

\* A hierarchical generator reads index only as index % nodes_per_machine and,
\* in the exp2 variant, as index % (exp_2_out_size + 1) and
\* index % (exp_2_in_size + 1): two rounds that differ by a multiple of the
\* least common multiple of these yield the same pair.
SchedulePeriod ==
    LET nodes_per_machine == sched.local_size
        num_machines == sched.world_size \div sched.local_size
    IN  IF sched.kind = "InnerOuterRing" THEN nodes_per_machine
        ELSE LCM(nodes_per_machine,
                 LCM(FloorLog2(num_machines - 1) + 1,
                     FloorLog2(nodes_per_machine - 2) + 1))

\* the pair of a round is the pair of that round modulo the period
ScheduleRepeats ==
    sched.kind \in {"InnerOuterRing", "InnerOuterExp2"} =>
        \A r \in 0 .. (sched.world_size - 1) : \A i \in 0 .. (3 * SchedulePeriod) :
            IF sched.kind = "InnerOuterRing"
            THEN GetInnerOuterRingDynamicSendRecvRanks(
                     sched.world_size, sched.local_size, r, i)
                 = GetInnerOuterRingDynamicSendRecvRanks(
                     sched.world_size, sched.local_size, r, i % SchedulePeriod)
            ELSE GetInnerOuterExp2DynamicSendRecvRanks(
                     sched.world_size, sched.local_size, r, i)
                 = GetInnerOuterExp2DynamicSendRecvRanks(
                     sched.world_size, sched.local_size, r, i % SchedulePeriod)

\* The generators run `while True` and index grows by one per round without
\* end.  What a generator will yield from a round on is determined by the
\* residue of index modulo the period of its schedule, so the endless run is
\* followed through that residue, `phase` = index % SchedulePeriod, in place of
\* index itself: the run of the program with index = 0, 1, 2, ... is the run
\* here with phase = 0, 1, ..., SchedulePeriod - 1, 0, 1, ...
CreatedInPeriod ==
    [pc |-> "created", phase |-> 0, send |-> <<>>, recv |-> <<>>, err |-> "none"]

\* (index + 1) % SchedulePeriod for the index the generator holds after its
\* `index += 1`, from phase = index % SchedulePeriod; 0 at the first next()
NextPhase(g) == IF g.pc = "created" THEN 0 ELSE (g.phase + 1) % SchedulePeriod

\* the generator after a next() that ran a round of residue `phase` with outcome y
ResumeInPeriod(y, phase) ==
    IF y.status = "ok"
    THEN [pc |-> "yielded", phase |-> phase, send |-> y.send, recv |-> y.recv,
          err |-> "none"]
    ELSE [pc |-> "failed", phase |-> phase, send |-> <<>>, recv |-> <<>>,
          err |-> y.status]

\* the call of the generator function, as in Create
CreateInPeriod(rank) ==
    /\ DOMAIN gens = 0 .. (rank - 1)
    /\ rank < sched.world_size
    /\ gens' = [r \in 0 .. rank |-> IF r < rank THEN gens[r] ELSE CreatedInPeriod]
    /\ UNCHANGED <<call, status, topo, view, sched>>

CallInnerOuterRingForever(rank) ==
    /\ sched.kind = "InnerOuterRing"
    /\ CreateInPeriod(rank)

CallInnerOuterExp2Forever(rank) ==
    /\ sched.kind = "InnerOuterExp2"
    /\ CreateInPeriod(rank)

\* The ranks take turns, rank 0 first, round after round: a rank moves when the
\* running generators below it are one round ahead and those above it are
\* where it is.
InTurn(rank) ==
    /\ AllCreated
    /\ rank \in DOMAIN gens
    /\ gens[rank].pc # "failed"
    /\ \A o \in DOMAIN gens :
          gens[o].pc # "failed"
          => IF o < rank
             THEN gens[o].pc = "yielded" /\ gens[o].phase = NextPhase(gens[rank])
             ELSE gens[o].pc = gens[rank].pc /\ gens[o].phase = gens[rank].phase

\* next() in a round whose index has residue NextPhase: the pair is that of
\* round index = NextPhase (ScheduleRepeats)
NextInnerOuterRingForever(rank) ==
    /\ sched.kind = "InnerOuterRing"
    /\ InTurn(rank)
    /\ gens' = [gens EXCEPT ![rank] =
                   ResumeInPeriod(GetInnerOuterRingDynamicSendRecvRanks(
                                      sched.world_size, sched.local_size, rank,
                                      NextPhase(gens[rank])),
                                  NextPhase(gens[rank]))]
    /\ UNCHANGED <<call, status, topo, view, sched>>

NextInnerOuterExp2Forever(rank) ==
    /\ sched.kind = "InnerOuterExp2"
    /\ InTurn(rank)
    /\ gens' = [gens EXCEPT ![rank] =
                   ResumeInPeriod(GetInnerOuterExp2DynamicSendRecvRanks(
                                      sched.world_size, sched.local_size, rank,
                                      NextPhase(gens[rank])),
                                  NextPhase(gens[rank]))]
    /\ UNCHANGED <<call, status, topo, view, sched>>

NextHierarchicalForever ==
    \/ \E rank \in 0 .. (MaxWorld - 1) : CallInnerOuterRingForever(rank)
    \/ \E rank \in 0 .. (MaxWorld - 1) : CallInnerOuterExp2Forever(rank)
    \/ \E rank \in 0 .. (MaxWorld - 1) : NextInnerOuterRingForever(rank)
    \/ \E rank \in 0 .. (MaxWorld - 1) : NextInnerOuterExp2Forever(rank)

\* Every rank's training loop calls next() on its generator once per iteration
\* and nothing blocks the call, so a generator step that stays possible is
\* eventually taken; no generator ever stops.
SpecHierarchicalForever ==
    InitHierarchical /\ [][NextHierarchicalForever]_vars
    /\ WF_vars(NextHierarchicalForever)

Init == InitBuild \/ InitDynamic \/ InitHierarchical \/ InitGiven \/ InitDigraph
Next ==
    \/ NextBuiltDynamic
    \/ NextDynamicAll
    \/ NextHierarchical
    \/ NextGiven
Spec == Init /\ [][Next]_vars

----------------------------------------------------------------------------
(* Properties *)

Range(q) == {q[k] : k \in DOMAIN q}

BuilderNames ==
    {"RingGraph", "PowerTwoRingGraph", "PowerGraph", "SymmetricPowerGraph",
     "MeshGrid2DGraph", "StarGraph", "FullyConnectedGraph", "InnerOuterRingGraph",
     "InnerOuterExp2Graph"}

\* the out-neighbors of rank other than rank itself
NonSelfOut(G, rank) == successors(G, rank) \ {rank}

\* clockwise distance from rank to n
ClockwiseDistance(G, rank, n) == IF n >= rank THEN n - rank ELSE n - rank + G.n

\* the non-self out-neighbor of rank with exactly (t mod d) nearer ones
ExpectedSend(G, rank, t) ==
    LET S == NonSelfOut(G, rank)
    IN  CHOOSE x \in S :
            Cardinality({y \in S : ClockwiseDistance(G, rank, y)
                                       < ClockwiseDistance(G, rank, x)})
                = t % Cardinality(S)

BothYielded(r, o) ==
    /\ gens[r].pc = "yielded"
    /\ gens[o].pc = "yielded"
    /\ gens[r].index = gens[o].index

\* C1: over a topology in which every rank has a non-self out-neighbor, whenever
\* ranks r and o have both generated the pair of the same round, o is among the
\* recv_ranks of r exactly if the send rank of o is r; and no rank generates a
\* pair while another rank's generator has failed.
C1_SendRecvConsistent ==
    (sched.kind = "dynamic" /\ \A rank \in Nodes(topo) : NonSelfOut(topo, rank) # {})
    => /\ \A r \in DOMAIN gens : \A o \in DOMAIN gens :
             BothYielded(r, o) => (o \in Range(gens[r].recv) <=> gens[o].send = <<r>>)
       /\ \A r \in DOMAIN gens : \A o \in DOMAIN gens :
             ~(gens[r].pc = "yielded" /\ gens[o].pc = "failed")

\* C1 witness: three ranks, one without a self-loop, and in round 1 rank r
\* receives from two ranks that both send to it
C1_Witness ==
    /\ sched.kind = "dynamic"
    /\ topo.n = 3
    /\ \A rank \in Nodes(topo) : NonSelfOut(topo, rank) # {}
    /\ \E rank \in Nodes(topo) : ~HasEdge(topo, rank, rank)
    /\ \E r \in DOMAIN gens :
          /\ gens[r].pc = "yielded" /\ gens[r].index = 1
          /\ Len(gens[r].recv) = 2
          /\ \A o \in Range(gens[r].recv) : BothYielded(r, o) /\ gens[o].send = <<r>>

\* C2: a rank with d >= 1 non-self out-neighbors, with or without a self-loop,
\* emits in round t the non-self out-neighbor number (t mod d) in increasing
\* clockwise distance (so rounds 0..d-1 visit each once and round t+d repeats
\* round t).
C2_VisitsEveryNonSelfNeighbor ==
    sched.kind = "dynamic" =>
        \A r \in DOMAIN gens :
            (NonSelfOut(topo, r) # {} /\ gens[r].pc = "yielded")
            => gens[r].send = <<ExpectedSend(topo, r, gens[r].index)>>

RowSum(G, i) == SumFloats(G.w[i], G.n)

\* |a - 1| <= 2^-30, which is below 1e-9
CloseToOne(a) ==
    /\ a[1] = 1
    /\ \/ a[2] = 0 /\ a[3] = HiUnit /\ a[4] <= Pow2(22)
       \/ a[2] = -1 /\ a[3] = 2 * HiUnit - 1 /\ HiUnit - a[4] <= Pow2(23)

\* C3 as stated: a builder called with a size > 0 that returns a topology
\* returns one of that size whose rows each sum to exactly 1 and whose entries
\* are all >= 0.
C3_RowsSumToOne ==
    (call.fn \in BuilderNames /\ call.size > 0 /\ status = "ok")
    => /\ topo.n = call.size
       /\ \A i \in Nodes(topo) :
             /\ RowSum(topo, i) = One
             /\ \A j \in Nodes(topo) : FNonNeg(topo.w[i][j])

\* C3, amended: a builder called with a size > 0 that returns a topology
\* returns one of that size whose rows each sum to 1 within 1e-9 (the entries
\* are rounded doubles) and whose entries are all >= 0.
C3_RowsSumToOneRounded ==
    (call.fn \in BuilderNames /\ call.size > 0 /\ status = "ok")
    => /\ topo.n = call.size
       /\ \A i \in Nodes(topo) :
             /\ CloseToOne(RowSum(topo, i))
             /\ \A j \in Nodes(topo) : FNonNeg(topo.w[i][j])

\* C3 witness: FullyConnectedGraph(6), six entries 1/6 = 0.16666666666666666
\* whose sum is 0.9999999999999999
C3_Witness ==
    /\ call.fn = "FullyConnectedGraph" /\ call.size = 6
    /\ status = "ok"
    /\ \A j \in 0 .. 5 : topo.w[0][j] = Quot(1, 6)
    /\ RowSum(topo, 0) # One /\ CloseToOne(RowSum(topo, 0))

\* self_weight + sum(neighbor_weights.values())
ViewTotal(v) ==
    FAdd(v.self_weight,
         SumAscending(v.neighbor_weights, DOMAIN v.neighbor_weights, Zero))

\* C4 as stated: for a topology built with size > 0, the WeightView
\* GetRecvWeights returns for any rank has self_weight + sum of
\* neighbor_weights = 1.
C4_RecvWeightsSumToOne ==
    (view.fn = "GetRecvWeights" /\ call.fn \in BuilderNames /\ call.size > 0)
    => ViewTotal(view) = One

\* C4, amended: for a topology built with size > 0, the WeightView
\* GetRecvWeights returns for any rank has self_weight + sum of
\* neighbor_weights = 1 within 1e-9.
C4_RecvWeightsSumToOneRounded ==
    (view.fn = "GetRecvWeights" /\ call.fn \in BuilderNames /\ call.size > 0)
    => CloseToOne(ViewTotal(view))

\* C4 witness: InnerOuterRingGraph(6, 3), a rank receiving from its two local
\* peers and from its twin on the other machine
C4_Witness ==
    /\ view.fn = "GetRecvWeights"
    /\ call.fn = "InnerOuterRingGraph" /\ call.size = 6 /\ call.local_size = 3
    /\ view.rank = 4
    /\ DOMAIN view.neighbor_weights = {1, 3, 5}
    /\ view.self_weight = Quot(1, 4)

ValidHierarchy == sched.world_size % sched.local_size = 0 /\ sched.local_size > 2

\* C5: in a valid ring hierarchy every next() yields; in round t a rank whose
\* local id is t mod local_size sends to its local id on the next machine and
\* receives from its local id on the previous machine; any other rank sends to
\* and receives from ranks of its own machine.
C5_OutsideExactlyOnOwnTurn ==
    (sched.kind = "InnerOuterRing" /\ ValidHierarchy)
    => \A r \in DOMAIN gens :
          gens[r].pc # "created"
          => LET L == sched.local_size
                 M == sched.world_size \div L
                 m == r \div L
                 lid == r % L
                 t == gens[r].index
             IN  /\ gens[r].pc = "yielded"
                 /\ Len(gens[r].send) = 1 /\ Len(gens[r].recv) = 1
                 /\ IF t % L = lid
                    THEN /\ gens[r].send[1] = ((m + 1) % M) * L + lid
                         /\ gens[r].recv[1] = ((m - 1) % M) * L + lid
                    ELSE /\ gens[r].send[1] \div L = m
                         /\ gens[r].recv[1] \div L = m

\* C5 witness: 3 machines of 3 ranks in round 1: rank 4 (local id 1) is outside,
\* sending to 7 and receiving from 1, while rank 3 exchanges inside its machine
C5_Witness ==
    /\ sched = [kind |-> "InnerOuterRing", world_size |-> 9, local_size |-> 3]
    /\ AllCreated
    /\ gens[4].pc = "yielded" /\ gens[4].index = 1
    /\ gens[4].send = <<7>> /\ gens[4].recv = <<1>>
    /\ gens[3].pc = "yielded" /\ gens[3].index = 1
    /\ gens[3].send = <<5>> /\ gens[3].recv = <<5>>

\* C6: in a valid ring hierarchy no rank is ever given its own id as send rank
\* or as recv rank.
C6_NeverSelf ==
    (sched.kind = "InnerOuterRing" /\ ValidHierarchy)
    => \A r \in DOMAIN gens :
          gens[r].pc = "yielded" => (gens[r].send # <<r>> /\ gens[r].recv # <<r>>)

\* C7 as stated: with local_size = 2 both hierarchical generators fail with
\* Unsupported, whatever the world_size and the rank, and yield nothing.
C7_AlwaysUnsupported ==
    (sched.kind \in {"InnerOuterRing", "InnerOuterExp2"} /\ sched.local_size = 2)
    => \A r \in DOMAIN gens :
          gens[r].pc # "created"
          => (gens[r].pc = "failed" /\ gens[r].err = "Unsupported")

\* C7 amended: with local_size = 2 both hierarchical generators fail at the
\* first next() and yield nothing: with Unsupported when world_size is even,
\* with the InvalidArgument of the divisibility check when it is odd.
C7_UnsupportedWhenDivisible ==
    (sched.kind \in {"InnerOuterRing", "InnerOuterExp2"} /\ sched.local_size = 2)
    => \A r \in DOMAIN gens :
          gens[r].pc # "created"
          => /\ gens[r].pc = "failed"
             /\ gens[r].send = <<>> /\ gens[r].recv = <<>>
             /\ gens[r].err = IF sched.world_size % 2 = 0
                              THEN "Unsupported" ELSE "InvalidArgument"

\* C7 witness: world_size 4, local_size 2: every rank's exp2 generator has
\* failed with Unsupported
C7_Witness ==
    /\ sched = [kind |-> "InnerOuterExp2", world_size |-> 4, local_size |-> 2]
    /\ AllCreated
    /\ \A r \in DOMAIN gens : gens[r].pc = "failed" /\ gens[r].err = "Unsupported"

\* C8: a builder called with size <= 0 fails and returns no topology.
C8_NonPositiveSizeRejected ==
    (call.fn \in BuilderNames /\ call.size <= 0)
    => (status # "ok" /\ topo = NoTopology)

BadBase(base) == ~(base.int /\ base.v > 1)

\* C9: PowerGraph and SymmetricPowerGraph called with size > 0 and a base that
\* is not an integer greater than 1 fail with InvalidArgument.
C9_BadBaseRejected ==
    (call.fn \in {"PowerGraph", "SymmetricPowerGraph"} /\ call.size > 0
        /\ BadBase(call.base))
    => status = "InvalidArgument"

\* C10: when world_size is not divisible by local_size, the static builder of
\* the hierarchy fails with InvalidArgument and returns no topology, and every
\* generator that was advanced has failed with InvalidArgument without yielding.
C10_IndivisibleRejected ==
    (sched.kind \in {"InnerOuterRing", "InnerOuterExp2"}
        /\ sched.world_size % sched.local_size # 0)
    => /\ call.fn \in {"InnerOuterRingGraph", "InnerOuterExp2Graph"}
          => (status = "InvalidArgument" /\ topo = NoTopology)
       /\ \A r \in DOMAIN gens :
             gens[r].pc # "created"
             => /\ gens[r].pc = "failed" /\ gens[r].err = "InvalidArgument"
                /\ gens[r].send = <<>> /\ gens[r].recv = <<>>

\* C10 witness: world_size 7, local_size 3: the builder and a generator failed
C10_Witness ==
    /\ sched.world_size = 7 /\ sched.local_size = 3
    /\ call.fn \in {"InnerOuterRingGraph", "InnerOuterExp2Graph"}
    /\ status = "InvalidArgument"
    /\ \E r \in DOMAIN gens : gens[r].pc = "failed" /\ gens[r].err = "InvalidArgument"

\* C11: a hierarchical generator is never handed to the caller when world_size
\* is not divisible by local_size or local_size <= 2: the creating call itself
\* fails, so no generator stands created and not yet failed.
C11_RejectedAtCreation ==
    (sched.kind \in {"InnerOuterRing", "InnerOuterExp2"} /\ ~ValidHierarchy)
    => \A r \in DOMAIN gens : gens[r].pc # "created"

\* C12: over a topology a builder returned for a size > 0 (size 1 included), no
\* rank's GetDynamicSendRecvRanks generator ever fails, and every pair it yields
\* has exactly one send rank.
C12_NeverFailsOnBuilt ==
    (sched.kind = "dynamic" /\ call.fn \in BuilderNames /\ call.size > 0)
    => \A r \in DOMAIN gens :
          /\ gens[r].pc # "failed"
          /\ gens[r].pc = "yielded" => Len(gens[r].send) = 1

\* C13: in a valid exp2 hierarchy (world_size divisible by local_size > 2, a
\* single machine included) every next() of every rank yields one send rank and
\* one recv rank; the generator never fails.
C13_Exp2YieldsWhenValid ==
    (sched.kind = "InnerOuterExp2" /\ ValidHierarchy)
    => \A r \in DOMAIN gens :
          gens[r].pc # "created"
          => /\ gens[r].pc = "yielded"
             /\ Len(gens[r].send) = 1 /\ Len(gens[r].recv) = 1

StarCall == call.fn = "StarGraph" /\ call.size >= 2 /\ status = "ok"

\* C14 as stated: StarGraph(size >= 2, center_rank) gives weight 1/size to every
\* leaf <-> center edge, self-weight 1 - 1/size to every node, the center
\* included, and 0 elsewhere.
C14_EverySelfWeightSame ==
    StarCall
    => \A i \in Nodes(topo) : \A j \in Nodes(topo) :
          topo.w[i][j] =
              IF i = j THEN FSub(One, Quot(1, call.size))
              ELSE IF i = call.center_rank \/ j = call.center_rank
                   THEN Quot(1, call.size)
                   ELSE Zero

\* C14 amended: StarGraph(size >= 2, center_rank) gives weight 1/size to every
\* leaf <-> center edge and to the center's self-loop, self-weight 1 - 1/size
\* to every leaf, and 0 elsewhere.
C14_CenterSelfWeightIsEdgeWeight ==
    StarCall
    => \A i \in Nodes(topo) : \A j \in Nodes(topo) :
          topo.w[i][j] =
              IF i = call.center_rank \/ j = call.center_rank
              THEN Quot(1, call.size)
              ELSE IF i = j THEN FSub(One, Quot(1, call.size))
                   ELSE Zero

\* C14 witness: StarGraph(5, 2): center self-weight 1/5, leaf self-weight 4/5
C14_Witness ==
    /\ call.fn = "StarGraph" /\ call.size = 5 /\ call.center_rank = 2
    /\ status = "ok"
    /\ topo.w[2][2] = Quot(1, 5) /\ topo.w[0][0] = Quot(4, 5)
    /\ topo.w[0][2] = Quot(1, 5) /\ topo.w[2][4] = Quot(1, 5) /\ topo.w[0][1] = Zero

\* C15: RingGraph(size, connect_style) that returns a topology returns: size 1,
\* the single self-loop of weight 1; size 2, all four entries 1/2; size >= 3,
\* style 0: 1/3 on self, (i-1) mod size and (i+1) mod size; style 1: 1/2 on self
\* and (i-1) mod size; style 2: 1/2 on self and (i+1) mod size; 0 elsewhere.
C15_RingWeights ==
    (call.fn = "RingGraph" /\ status = "ok")
    => /\ topo.n = call.size
       /\ \A i \in Nodes(topo) : \A j \in Nodes(topo) :
             LET n == call.size
                 left == (i - 1) % n
                 right == (i + 1) % n
             IN  topo.w[i][j] =
                     IF n = 1 THEN One
                     ELSE IF n = 2 THEN Quot(1, 2)
                     ELSE IF call.connect_style = 0
                          THEN (IF j \in {i, left, right} THEN Quot(1, 3) ELSE Zero)
                     ELSE IF call.connect_style = 1
                          THEN (IF j \in {i, left} THEN Quot(1, 2) ELSE Zero)
                     ELSE (IF j \in {i, right} THEN Quot(1, 2) ELSE Zero)

\* C15 witness: RingGraph(5, 1): rank 0 is connected to itself and to rank 4
C15_Witness ==
    /\ call.fn = "RingGraph" /\ call.size = 5 /\ call.connect_style = 1
    /\ status = "ok"
    /\ topo.w[0][0] = Quot(1, 2) /\ topo.w[0][4] = Quot(1, 2) /\ topo.w[0][1] = Zero

\* C16: the matrices PowerTwoRingGraph, RingGraph and FullyConnectedGraph return
\* for a size > 0 are circulant, W[i][j] = W[0][(j - i) mod size], and every
\* entry of FullyConnectedGraph's is 1/size.
C16_Circulant ==
    (call.fn \in {"PowerTwoRingGraph", "RingGraph", "FullyConnectedGraph"}
        /\ call.size > 0 /\ status = "ok")
    => /\ topo.n = call.size
       /\ \A i \in Nodes(topo) : \A j \in Nodes(topo) :
             /\ topo.w[i][j] = topo.w[0][(j - i) % call.size]
             /\ call.fn = "FullyConnectedGraph" => topo.w[i][j] = Quot(1, call.size)

\* C16 witness: PowerTwoRingGraph(6), whose row 0 marks the offsets 0, 1, 2, 4
C16_Witness ==
    /\ call.fn = "PowerTwoRingGraph" /\ call.size = 6 /\ status = "ok"
    /\ topo.w[0][4] = Quot(1, 4) /\ topo.w[0][3] = Zero
    /\ topo.w[1][5] = Quot(1, 4) /\ topo.w[1][4] = Zero /\ topo.w[1][0] = Zero

EqualMatrices(a, b) ==
    /\ a.n = b.n
    /\ \A i \in Nodes(a) : \A j \in Nodes(a) : a.w[i][j] = b.w[i][j]

\* C17: IsTopologyEquivalent(t, t) is true for a built t; IsTopologyEquivalent(a,
\* b) is false when a or b is absent, or their node counts or their edge counts
\* differ; otherwise it is true exactly if the two weight matrices are equal
\* entry by entry.
C17_EquivalentIffSameMatrix ==
    view.fn = "IsTopologyEquivalent"
    => LET a == topo
           b == view.topo2
       IN  /\ (a # NoTopology /\ a = b) => view.result = TRUE
           /\ IF a = NoTopology \/ b = NoTopology THEN view.result = FALSE
              ELSE IF a.n # b.n THEN view.result = FALSE
              ELSE IF number_of_edges(a) # number_of_edges(b) THEN view.result = FALSE
              ELSE view.result = EqualMatrices(a, b)

\* C17 witness: StarGraph(3, 0) against StarGraph(3, 1): the same graph up to
\* the names of the nodes, as many nodes and edges, and not equivalent
C17_Witness ==
    /\ view.fn = "IsTopologyEquivalent"
    /\ topo = StarGraph(3, 0).topo
    /\ view.topo2 = StarGraph(3, 1).topo
    /\ number_of_edges(topo) = number_of_edges(view.topo2)
    /\ view.result = FALSE

\* C18 as stated: IsRegularGraph is true exactly if every node has as many
\* outgoing edges as node 0.
C18_SameOutDegree ==
    view.fn = "IsRegularGraph"
    => (view.result <=> \A rank \in Nodes(topo) :
                           Cardinality(successors(topo, rank))
                               = Cardinality(successors(topo, 0)))

\* C18 amended: IsRegularGraph is true exactly if every node has the same total
\* of incoming plus outgoing edges as node 0 (a self-loop counts twice).
C18_SameTotalDegree ==
    view.fn = "IsRegularGraph"
    => (view.result <=> \A rank \in Nodes(topo) :
                           Cardinality(successors(topo, rank))
                                 + Cardinality(predecessors(topo, rank))
                               = Cardinality(successors(topo, 0))
                                 + Cardinality(predecessors(topo, 0)))

\* C18 witness: the two-node graph with the single edge 0 -> 1: out-degrees 1
\* and 0, total degrees 1 and 1, reported regular
C18_Witness ==
    /\ view.fn = "IsRegularGraph"
    /\ topo.n = 2
    /\ successors(topo, 0) = {1} /\ successors(topo, 1) = {}
    /\ view.result = TRUE

\* what GetSendWeights returned is row `rank` of the matrix without the diagonal
SendViewMatchesRow ==
    view.fn = "GetSendWeights"
    => /\ DOMAIN view.neighbor_weights = successors(topo, view.rank) \ {view.rank}
       /\ \A r \in DOMAIN view.neighbor_weights :
             view.neighbor_weights[r] = topo.w[view.rank][r]
       /\ view.self_weight = topo.w[view.rank][view.rank]

\* what GetRecvWeights returned is column `rank` of the matrix without the diagonal
RecvViewMatchesColumn ==
    view.fn = "GetRecvWeights"
    => /\ DOMAIN view.neighbor_weights = predecessors(topo, view.rank) \ {view.rank}
       /\ \A src \in DOMAIN view.neighbor_weights :
             view.neighbor_weights[src] = topo.w[src][view.rank]
       /\ view.self_weight = topo.w[view.rank][view.rank]

\* the view one end of an edge was given agrees with what the other end reads
SendRecvAgree ==
    /\ view.fn = "GetSendWeights"
       => \A j \in DOMAIN view.neighbor_weights :
             view.neighbor_weights[j]
                 = GetRecvWeights(topo, j).neighbor_weights[view.rank]
    /\ view.fn = "GetRecvWeights"
       => \A i \in DOMAIN view.neighbor_weights :
             view.neighbor_weights[i]
                 = GetSendWeights(topo, i).neighbor_weights[view.rank]

\* a step that returns a weight view leaves the topology as it was
ViewCallKeepsTopology ==
    (view'.fn \in {"GetSendWeights", "GetRecvWeights"}) => topo' = topo

\* C19: GetSendWeights(topology, rank) returns the non-self successors of rank
\* with W[rank][r] and self_weight W[rank][rank] (0 without a self-loop);
\* GetRecvWeights returns the non-self predecessors with W[src][rank] and the
\* same self_weight; so for an edge i -> j, i # j, GetSendWeights(i)[j] =
\* GetRecvWeights(j)[i]; and neither call changes the topology.
C19_WeightViewsReadMatrix ==
    /\ [](SendViewMatchesRow /\ RecvViewMatchesColumn /\ SendRecvAgree)
    /\ [][ViewCallKeepsTopology]_vars

\* C19 witness: 3 nodes, rank 1 without a self-loop receiving from 0 and 2 with
\* different weights, and not sending to both
C19_Witness ==
    /\ view.fn = "GetRecvWeights" /\ view.rank = 1
    /\ topo.n = 3
    /\ view.self_weight = Zero
    /\ DOMAIN view.neighbor_weights = {0, 2}
    /\ view.neighbor_weights[0] = Quot(1, 3) /\ view.neighbor_weights[2] = Quot(1, 9)
    /\ successors(topo, 1) # {0, 2}

\* d >= 0 is base^k for some k >= 0
RECURSIVE IsExactPower(_, _)
IsExactPower(d, base) ==
    IF d = 1 THEN TRUE
    ELSE IF base < 2 THEN d = base
    ELSE d > 0 /\ d % base = 0 /\ IsExactPower(d \div base, base)

PowerCall ==
    /\ call.fn \in {"PowerGraph", "PowerTwoRingGraph"}
    /\ call.size > 0
    /\ status = "ok"

PowerCallBase == IF call.fn = "PowerTwoRingGraph" THEN 2 ELSE call.base.v

\* the nonzero weights of every row are equal and sum to 1
RowsUniform ==
    \A i \in Nodes(topo) :
        /\ \A j \in successors(topo, i) : \A k \in successors(topo, i) :
              topo.w[i][j] = topo.w[i][k]
        /\ RowSum(topo, i) = One

\* the same, the sum being 1 up to rounding
RowsUniformRounded ==
    \A i \in Nodes(topo) :
        /\ \A j \in successors(topo, i) : \A k \in successors(topo, i) :
              topo.w[i][j] = topo.w[i][k]
        /\ CloseToOne(RowSum(topo, i))

CeilLog2(n) == CHOOSE m \in 0 .. n : Power(2, m) >= n /\ \A k \in 0 .. (m - 1) : Power(2, k) < n

\* C21: for PowerTwoRingGraph(size), size > 1, the keys GetRecvWeights returns
\* for a rank are exactly the ranks (rank - 2^i) mod size, 0 <= i <
\* ceil(log2(size)), which are pairwise distinct, and the self weight and every
\* neighbor weight equal 1 / (ceil(log2(size)) + 1).
C21_PowerTwoInNeighbors ==
    (view.fn = "GetRecvWeights" /\ call.fn = "PowerTwoRingGraph" /\ call.size > 1)
    => LET m == CeilLog2(call.size)
           src(i) == (view.rank - Power(2, i)) % call.size
       IN  /\ DOMAIN view.neighbor_weights = {src(i) : i \in 0 .. (m - 1)}
           /\ \A i \in 0 .. (m - 1) : \A k \in 0 .. (m - 1) : i # k => src(i) # src(k)
           /\ view.self_weight = Quot(1, m + 1)
           /\ \A o \in DOMAIN view.neighbor_weights :
                 view.neighbor_weights[o] = Quot(1, m + 1)

\* C21 witness: PowerTwoRingGraph(6), rank 1 receives from 0, 5 and 3 with
\* weight 1/4 each
C21_Witness ==
    /\ view.fn = "GetRecvWeights" /\ call.fn = "PowerTwoRingGraph" /\ call.size = 6
    /\ view.rank = 1
    /\ DOMAIN view.neighbor_weights = {0, 3, 5}
    /\ view.self_weight = Quot(1, 4) /\ view.neighbor_weights[3] = Quot(1, 4)

\* C22: SymmetricPowerGraph(size, base) called with size > 0 and an integer
\* base > 1 returns a symmetric matrix, W[i][j] = W[j][i], in which rank 0 has an
\* edge to offset k exactly if k = 0 or min(k, size - k) is an exact power of
\* base.
C22_SymmetricPowers ==
    (call.fn = "SymmetricPowerGraph" /\ call.size > 0 /\ ~BadBase(call.base))
    => /\ status = "ok"
       /\ topo.n = call.size
       /\ \A i \in Nodes(topo) : \A j \in Nodes(topo) : topo.w[i][j] = topo.w[j][i]
       /\ \A k \in Nodes(topo) :
             HasEdge(topo, 0, k)
                 <=> (k = 0 \/ IsExactPower(IF k <= call.size - k THEN k ELSE call.size - k,
                                            call.base.v))

Hierarchical == sched.kind \in {"InnerOuterRing", "InnerOuterExp2"}

\* the rank of machine m that goes outside in round t
OutsideRankOf(m, t) == m * sched.local_size + (t % sched.local_size)

\* C23: in a valid hierarchy of either kind, a rank that is not the designated
\* outside rank of the round neither sends to nor receives from the designated
\* outside rank of its machine, nor itself.
C23_InsideAvoidsOutsideRank ==
    (Hierarchical /\ ValidHierarchy)
    => \A r \in DOMAIN gens :
          LET out == OutsideRankOf(r \div sched.local_size, gens[r].index)
          IN  (gens[r].pc = "yielded" /\ r # out)
              => /\ gens[r].send[1] # out /\ gens[r].recv[1] # out
                 /\ gens[r].send[1] # r /\ gens[r].recv[1] # r

\* C23 witness: exp2, 2 machines of 4, round 2 (rank 2 outside): rank 1 steps
\* over rank 2 to send to 3, and receives from 0
C23_Witness ==
    /\ sched = [kind |-> "InnerOuterExp2", world_size |-> 8, local_size |-> 4]
    /\ AllCreated
    /\ gens[1].pc = "yielded" /\ gens[1].index = 2
    /\ gens[1].send = <<3>> /\ gens[1].recv = <<0>>

\* the static graph of the hierarchy has been built
StaticBuilt ==
    /\ status = "ok"
    /\ call.fn = IF sched.kind = "InnerOuterRing"
                 THEN "InnerOuterRingGraph" ELSE "InnerOuterExp2Graph"

\* C24: in a valid hierarchy, every pair a rank's generator yields lies in the
\* static graph of the same kind and parameters: rank -> send_rank and
\* recv_rank -> rank are edges (nonzero entries) of it.
C24_ScheduleWithinStaticGraph ==
    (Hierarchical /\ ValidHierarchy /\ StaticBuilt)
    => \A r \in DOMAIN gens :
          gens[r].pc = "yielded"
          => /\ HasEdge(topo, r, gens[r].send[1])
             /\ HasEdge(topo, gens[r].recv[1], r)

\* C24 witness: exp2, 4 machines of 3, round 3: rank 0 is outside at machine
\* distance 2, exchanging with rank 6, an edge of InnerOuterExp2Graph(12, 3)
C24_Witness ==
    /\ sched = [kind |-> "InnerOuterExp2", world_size |-> 12, local_size |-> 3]
    /\ StaticBuilt /\ AllCreated
    /\ gens[0].pc = "yielded" /\ gens[0].index = 3
    /\ gens[0].send = <<6>> /\ gens[0].recv = <<6>>
    /\ HasEdge(topo, 0, 6) /\ ~HasEdge(topo, 0, 9) /\ ~HasEdge(topo, 0, 4)

\* j is the horizontal or vertical neighbor of i on a grid of ncol columns,
\* rank i lying at row i \div ncol, column i % ncol, without wraparound
GridNeighbor(i, j, ncol) ==
    \/ (i \div ncol = j \div ncol) /\ Abs((i % ncol) - (j % ncol)) = 1
    \/ (i % ncol = j % ncol) /\ Abs((i \div ncol) - (j \div ncol)) = 1

\* the node itself plus its grid neighbors
GridDeg(i, size, ncol) ==
    1 + Cardinality({j \in 0 .. (size - 1) : GridNeighbor(i, j, ncol)})

MeshCallWithShape ==
    /\ call.fn = "MeshGrid2DGraph" /\ status = "ok"
    /\ call.shape # <<>>

\* the entries of row i off the diagonal follow the Metropolis-Hastings rule on
\* the grid, and the matrix is symmetric
MeshOffDiagonal(n, ncol) ==
    \A i, j \in 0 .. (n - 1) :
        /\ i # j
           => topo.w[i][j] =
                IF GridNeighbor(i, j, ncol)
                THEN Quot(1, Max(GridDeg(i, n, ncol), GridDeg(j, n, ncol)))
                ELSE Zero
        /\ topo.w[i][j] = topo.w[j][i]

\* sum of the entries of row i off the diagonal
MeshOthers(i, n) == SumAscending(topo.w[i], (0 .. (n - 1)) \ {i}, Zero)

\* C25 as stated: MeshGrid2DGraph(size, (nrow, ncol)) with nrow * ncol = size:
\* for i # j the entry W[i][j] is 1 / max(deg(i), deg(j)) when j is a grid
\* neighbor of i and zero otherwise; W[i][i] is 1 minus the other entries of the
\* row and is non-negative; the matrix is symmetric.
C25_DiagonalOneMinusOthers ==
    MeshCallWithShape
    => LET n == call.size
       IN  /\ topo.n = n
           /\ MeshOffDiagonal(n, call.shape[2])
           /\ \A i \in 0 .. (n - 1) :
                 /\ topo.w[i][i] = FSub(One, MeshOthers(i, n))
                 /\ FNonNeg(topo.w[i][i])

\* C25, amended: the same off the diagonal; W[i][i] is 2.0 minus the sum of the
\* row with 1.0 standing on the diagonal, which is 1 minus the other entries up
\* to rounding (together they are within 1e-9 of 1), and is non-negative.
C25_MeshGridHastings ==
    MeshCallWithShape
    => LET n == call.size
       IN  /\ topo.n = n
           /\ MeshOffDiagonal(n, call.shape[2])
           /\ \A i \in 0 .. (n - 1) :
                 /\ topo.w[i][i] =
                      FSub(Quot(2, 1),
                           SumFloats([topo.w[i] EXCEPT ![i] = One], n))
                 /\ CloseToOne(FAdd(MeshOthers(i, n), topo.w[i][i]))
                 /\ FNonNeg(topo.w[i][i])

\* C25 witness: the 2 x 2 grid; every node has degree 3, corner 0 is joined
\* to 1 and 2 with weight 1/3 and not to 3; its diagonal entry is
\* 2.0 - (1.0 + 1/3 + 1/3), which is neither 1 - (1/3 + 1/3) nor 1/3
C25_Witness ==
    /\ MeshCallWithShape
    /\ call.size = 4 /\ call.shape = <<2, 2>>
    /\ topo.w[0][1] = Quot(1, 3) /\ topo.w[0][2] = Quot(1, 3)
    /\ topo.w[0][3] = Zero
    /\ topo.w[0][0] = FSub(Quot(2, 1), FAdd(FAdd(One, Quot(1, 3)), Quot(1, 3)))
    /\ topo.w[0][0] # FSub(One, MeshOthers(0, 4))
    /\ topo.w[0][0] # Quot(1, 3)

InnerOuterCall ==
    /\ call.fn \in {"InnerOuterRingGraph", "InnerOuterExp2Graph"}
    /\ status = "ok"
    /\ call.size >= 1

\* the cross-machine distance from machine a to machine b is admitted
MachineLinked(a, b, num_machines) ==
    IF call.fn = "InnerOuterRingGraph"
    THEN b = (a + 1) % num_machines
    ELSE IsExactPower((b - a) % num_machines, 2)

\* C26: InnerOuterRingGraph / InnerOuterExp2Graph with valid parameters: W[i][j]
\* is nonzero exactly when i and j are on the same machine, or share the local
\* id with machine(j) one machine after machine(i) (ring) or at a power-of-2
\* machine distance (exp2); every nonzero entry of row i is 1 over the number
\* of nonzero entries of row i.
C26_InnerOuterRowNormalized ==
    InnerOuterCall
    => LET n == call.size
           L == call.local_size
           M == n \div L
           linked(i, j) ==
               \/ i \div L = j \div L
               \/ /\ i % L = j % L
                  /\ MachineLinked(i \div L, j \div L, M)
       IN  /\ topo.n = n
           /\ \A i, j \in 0 .. (n - 1) :
                 /\ (topo.w[i][j] # Zero) <=> linked(i, j)
                 /\ (topo.w[i][j] # Zero)
                    => topo.w[i][j] =
                         Quot(1, Cardinality({k \in 0 .. (n - 1) : topo.w[i][k] # Zero}))

\* C26 witness: exp2 with 6 machines of one rank: rank 0 reaches machines at
\* distance 1, 2 and 4 and itself, each with weight 1/4, and not 3 or 5
C26_Witness ==
    /\ InnerOuterCall
    /\ call.fn = "InnerOuterExp2Graph" /\ call.size = 6 /\ call.local_size = 1
    /\ topo.w[0][0] = Quot(1, 4) /\ topo.w[0][1] = Quot(1, 4)
    /\ topo.w[0][2] = Quot(1, 4) /\ topo.w[0][4] = Quot(1, 4)
    /\ topo.w[0][3] = Zero /\ topo.w[0][5] = Zero

\* every rank of the hierarchy has generated the pair of the same round
WholeRoundYielded ==
    /\ AllCreated
    /\ \A r \in DOMAIN gens :
          gens[r].pc = "yielded" /\ gens[r].index = gens[0].index

\* the pairs of one round agree: o sends to r exactly if r receives from o
PairsAgree ==
    \A r \in DOMAIN gens : \A o \in DOMAIN gens :
       BothYielded(r, o) => (gens[o].send = <<r>> <=> gens[r].recv = <<o>>)

\* once the whole round is generated, every rank has exactly one sender
SendIsPermutation ==
    WholeRoundYielded
    => \A r \in DOMAIN gens :
          /\ Cardinality({o \in DOMAIN gens : gens[o].send = <<r>>}) = 1
          /\ gens[r].send[1] \in DOMAIN gens

\* C27: GetInnerOuterRingDynamicSendRecvRanks with world_size divisible by
\* local_size > 2: in every round, the send rank of o is r exactly if the recv
\* rank of r is o; so the send map of a round is a permutation of the ranks and
\* every rank receives from exactly one sender.
C27_RingGloballyConsistent ==
    (sched.kind = "InnerOuterRing" /\ ValidHierarchy)
    => PairsAgree /\ SendIsPermutation

\* C27 witness: 3 machines of 3, round 1 generated by every rank: rank 1 is
\* outside and sends to rank 4, which receives from rank 1; ranks 0 and 2
\* exchange with each other
C27_Witness ==
    /\ sched = [kind |-> "InnerOuterRing", world_size |-> 9, local_size |-> 3]
    /\ WholeRoundYielded /\ gens[0].index = 1
    /\ gens[1].send = <<4>> /\ gens[4].recv = <<1>>
    /\ gens[0].send = <<2>> /\ gens[2].recv = <<0>>
    /\ gens[2].send = <<0>> /\ gens[0].recv = <<2>>

\* C28: GetInnerOuterExp2DynamicSendRecvRanks with world_size divisible by
\* local_size > 2 and at least 2 machines: in every round, the send rank of o is
\* r exactly if the recv rank of r is o, for the outside ranks and for the inner
\* ranks alike.
C28_Exp2GloballyConsistent ==
    (/\ sched.kind = "InnerOuterExp2" /\ ValidHierarchy
     /\ sched.world_size \div sched.local_size >= 2)
    => PairsAgree

\* C28 witness: 2 machines of 6, round 5 generated by every rank: rank 5 is
\* outside; the inner distance is 4, raised to 5 for rank 1 in both directions
\* (to rank 0, from rank 2) and kept at 4 between rank 0 and rank 4
C28_Witness ==
    /\ sched = [kind |-> "InnerOuterExp2", world_size |-> 12, local_size |-> 6]
    /\ WholeRoundYielded /\ gens[0].index = 5
    /\ gens[5].send = <<11>> /\ gens[11].recv = <<5>>
    /\ gens[1].send = <<0>> /\ gens[0].recv = <<1>>
    /\ gens[1].recv = <<2>> /\ gens[2].send = <<1>>
    /\ gens[0].send = <<4>> /\ gens[4].recv = <<0>>

\* rank r is a rank of a valid exp2 hierarchy of at least 2 machines, and 2^k
\* is one of its outer distances
OuterDistanceOf(r, k) ==
    /\ sched.kind = "InnerOuterExp2" /\ ValidHierarchy
    /\ sched.world_size \div sched.local_size >= 2
    /\ r < sched.world_size
    /\ k <= FloorLog2((sched.world_size \div sched.local_size) - 1)

\* rank r holds a pair of a round in which it is the outside rank (index %
\* local_size, which is phase % local_size, is its local id) and sends to its
\* own local id on the machine 2^k machines ahead
UsesOuterDistance(r, k) ==
    LET L == sched.local_size
        M == sched.world_size \div L
    IN  /\ r \in DOMAIN gens
        /\ gens[r].pc = "yielded"
        /\ gens[r].phase % L = r % L
        /\ gens[r].send = <<(((r \div L) + Power(2, k)) % M) * L + (r % L)>>

\* C29: in GetInnerOuterExp2DynamicSendRecvRanks with valid parameters and at
\* least 2 machines, for every rank and every k with 0 <= k <=
\* floor(log2(num_machines - 1)) there is eventually a round in which the rank
\* is the outside rank and sends to its own local id at machine distance 2^k.
C29_EveryOuterDistanceUsed ==
    \A r \in 0 .. (MaxWorld - 1) : \A k \in 0 .. FloorLog2(MaxWorld) :
       OuterDistanceOf(r, k) => <>UsesOuterDistance(r, k)

====
